---- MODULE Spec2Model ----
(***************************************************************************)
(* State-machine model of the TCB subscription-sync application: the gift  *)
(* eligibility evaluator, the email dispatch gate, the order-paid webhook, *)
(* the gift redemption endpoints and the operator's reset action.          *)
(*                                                                         *)
(* Every request handler is an async function: it can be interleaved with  *)
(* other handlers at each `await`.  A handler is therefore modelled as a   *)
(* request with a program counter, one action per database or upstream     *)
(* call whose order relative to other requests matters.                    *)
(***************************************************************************)
EXTENDS Integers, Sequences, FiniteSets, TLC

----------------------------------------------------------------------------
\* Bounds of the model

\* the clock runs from 0 to MaxTime (days)
MaxTime == 2
\* a selection submission carries 0..MaxProducts products
MaxProducts == 2
\* delivered-order counts of snapshot rows range over MinOrders..MaxOrders
MaxOrders == 4
\* number of contracts in the subscriber snapshot
MaxContracts == 1

\* the configured giftExpiryDays
GiftExpiryDays == 1

\* Program constants
\* settings?.maxGiftProducts || 3
DefaultMaxGifts == 3
\* syncSubscribers({ minOrdersDelivered: 3 })
MinOrders == 3

\* a null timestamp column
NULL == 0 - 1

Shops == {"shop1"}

\* the requests in flight: each is one invocation of a handler
SelectRequests == {"q1", "q2"}
ResetRequests == {"o1"}
VerifyRequests == {"v1"}
\* two evaluator runs, each started from one of the entry points: the timer's
\* cycle (runCronJob), the operator's processEligible action or the HTTP
\* trigger endpoint
EvalRequests == {"e1", "e2"}
EntryPoints == {"cron", "operator", "trigger"}
DispatchRequests == {"d1", "d2"}
HookRequests == {"w1"}

IdleEval == [pc |-> "idle", entry |-> "none", work |-> <<>>, error |-> "none"]
IdleDispatch == [pc |-> "idle", captured |-> <<>>, sent |-> 0, failed |-> 0]
IdleHook == [pc |-> "idle", customer |-> 0, contract |-> "", orders |-> 0,
             elig |-> 0, delay |-> 0]

\* calls of getAllSubscriptionContracts, reconciliations and cycle runs
FetchRequests == {"f1"}
SyncRequests == {"s1", "s2"}
CycleRequests == {"y1", "y2"}

IdleFetch == [pc |-> "idle", shop |-> "", page |-> 0, hasMore |-> TRUE,
              allContracts |-> <<>>]
IdleSync == [pc |-> "idle", entry |-> "none", shop |-> "", totalFetched |-> 0,
             totalSynced |-> 0, work |-> <<>>, error |-> "none"]
\* one call of addGiftProduct: the lookup of the contract, then the PUT
\* requests; writes is the list of the PUT requests issued with their answers
ApplyRequests == {"a1"}

NoInfo == [billingAttemptId |-> 0 - 1, subscriptionContractId |-> 0 - 1,
           appstleInternalId |-> 0 - 1, status |-> "", nextBillingDate |-> ""]

IdleApply == [pc |-> "idle", shop |-> "", contractId |-> 0, handle |-> "",
              page |-> 0, hasMore |-> TRUE, info |-> NoInfo,
              candidates |-> <<>>, writes |-> <<>>, errors |-> <<>>,
              result |-> "none"]

IdleCycle == [pc |-> "idle", entry |-> "none", list |-> <<>>, shop |-> "",
              visited |-> <<>>, steps |-> <<>>, errors |-> <<>>]

\* an upstream that lists no contract
NoUpstream == [contracts |-> <<>>, last |-> "honest", failAt |-> 0 - 1]

VARIABLES
    now,               \* the wall clock, new Date()
    giftSettings,      \* GiftSettings row per shop
    appSettings,       \* AppSettings per shop: is an appstleApiKey stored
    syncedSubscriber,  \* SyncedSubscriber rows
    giftEligibility,   \* GiftEligibility rows
    giftSelection,     \* GiftSelection rows
    nextId,            \* row id generators
    emailsSent,        \* emails delivered by sendMagicLinkEmail, per eligibility id
    addCalls,          \* addGiftProduct calls issued to the upstream, per request
    selProc,           \* selection-submission requests (api.gift.select action)
    resetProc,         \* operator resetStatus requests
    verifyProc,        \* token-verification requests (api.gift.verify loader)
    evalProc,          \* runs of the milestone evaluator
    dispProc,          \* runs of the email dispatch
    hookProc,          \* ORDERS_PAID webhook deliveries (handleOrderPaid)
    upstream,          \* the subscription platform's contract listing per shop
    syncLog,           \* SyncLog rows
    fetchProc,         \* calls of getAllSubscriptionContracts
    syncProc,          \* reconciliations of the subscriber snapshot
    cycleProc,         \* runs of the whole cycle over the shops
    cronRunning,       \* global.__cronRunning, the timer's overlap flag
    applyProc,         \* calls of AppstleService.addGiftProduct
    extraCopies        \* SyncedSubscriber rows stored more than once: the further copies

vars == <<now, giftSettings, appSettings, syncedSubscriber, giftEligibility,
          giftSelection, nextId, emailsSent, addCalls, selProc, resetProc,
          verifyProc, evalProc, dispProc, hookProc, upstream, syncLog,
          fetchProc, syncProc, cycleProc, cronRunning, applyProc,
          extraCopies>>

\* the requests of the scheduler cycle's steps and of the webhook
cycleVars == <<evalProc, dispProc, hookProc>>

\* the requests of the redemption endpoints and of the operator's reset
redeemVars == <<addCalls, selProc, resetProc, verifyProc>>

\* the upstream listing, the sync log and the runs that reconcile the snapshot
syncVars == <<upstream, syncLog, fetchProc, syncProc, cycleProc, cronRunning,
              applyProc, extraCopies>>

\* no contract upstream, an empty sync log and no reconciliation under way
NoSync ==
    /\ upstream = [s \in Shops |-> NoUpstream]
    /\ syncLog = <<>>
    /\ fetchProc = [f \in FetchRequests |-> IdleFetch]
    /\ syncProc = [r \in SyncRequests |-> IdleSync]
    /\ cycleProc = [y \in CycleRequests |-> IdleCycle]
    /\ cronRunning = FALSE
    /\ applyProc = [a \in ApplyRequests |-> IdleApply]
    /\ extraCopies = <<>>

----------------------------------------------------------------------------
\* Helpers

\* randomBytes(32).toString("hex"): a fresh token per created row
GiftToken(id) == ToString(id)

\* a GiftSettings row; triggerOrderNumbers is the stored comma-separated text,
\* one entry per field: a number, or NULL for a field that is not a number
Settings(maxGifts, delay) ==
    [enabled |-> TRUE, triggerOrderNumbers |-> <<MinOrders>>,
     maxGiftProducts |-> maxGifts, giftExpiryDays |-> GiftExpiryDays,
     emailDelayDays |-> delay]

\* a GiftEligibility row
Eligibility(id, shop, contract, customer, orderNumber, status, created, emailed, expiry) ==
    [id |-> id, shop |-> shop, subscriptionContractId |-> contract,
     customerId |-> customer, customerEmail |-> ToString(customer),
     orderNumber |-> orderNumber, giftToken |-> GiftToken(id),
     status |-> status, createdAt |-> created, emailSentAt |-> emailed,
     selectedAt |-> NULL, appliedAt |-> NULL, expiresAt |-> expiry]

\* the tokens a storefront request can carry: none, an unknown one, or the
\* token of a row
RequestTokens == {"", "unknown"} \cup {e.giftToken : e \in giftEligibility}

EligibilityById(id) == CHOOSE e \in giftEligibility : e.id = id

\* an update that deletes the row it was to change
DropEligibility(rows, id, status, selectedAt, appliedAt) ==
    {e \in rows : e.id # id}

\* prisma.giftEligibility.update({ where: { id }, data })
UpdateEligibility(rows, id, status, selectedAt, appliedAt) ==
    {IF e.id = id
        THEN [e EXCEPT !.status = status, !.selectedAt = selectedAt,
                       !.appliedAt = appliedAt]
        ELSE e : e \in rows}

\* JavaScript `x || d` on a number: 0 (and NaN) are falsy
OrDefault(x, d) == IF x = 0 THEN d ELSE x

----------------------------------------------------------------------------
\* Gift redemption: POST /api/gift/select

IdleSel == [pc |-> "idle", token |-> "", k |-> 0, elig |-> 0, rows |-> <<>>,
            results |-> <<>>, resp |-> "none", afterReset |-> FALSE]

\* an expiry check that grants one more day
IsExpiredLate(e, t) == t > e.expiresAt + 1

\* new Date() > eligibility.expiresAt
IsExpired(e, t) == t > e.expiresAt

\* eligibility.status === "selected" || eligibility.status === "applied"
AlreadySelected(e) == e.status \in {"selected", "applied"}

\* a mutation of SelectCheck: the status is checked before the expiry
SelectCheckStatusFirst(token, k, found, t) ==
    IF token = "" \/ k = 0 THEN "invalid_request"
    ELSE IF found = {} THEN "invalid_token"
    ELSE LET e == CHOOSE x \in found : TRUE IN
         IF AlreadySelected(e) THEN "already_selected"
         ELSE IF IsExpired(e, t) THEN "expired"
         ELSE "ok"

\* the checks made on the request and on the row read by token; "ok" when
\* the request goes on to the selection limit
SelectCheck(token, k, found, t) ==
    IF token = "" \/ k = 0 THEN "invalid_request"
    ELSE IF found = {} THEN "invalid_token"
    ELSE LET e == CHOOSE x \in found : TRUE IN
         IF IsExpired(e, t) THEN "expired"
         ELSE IF AlreadySelected(e) THEN "already_selected"
         ELSE "ok"

\* has an operator reset of this row from status applied completed
ResetFromAppliedDone(id) ==
    \E o \in ResetRequests :
        /\ resetProc[o].pc = "done"
        /\ resetProc[o].id = id
        /\ resetProc[o].from = "applied"

\* prisma.giftEligibility.findUnique({ where: { giftToken: token } })
FindByToken(token) == {e \in giftEligibility : e.giftToken = token}

\* a request that has been answered keeps its response
Responded(resp, eligId) == [IdleSel EXCEPT !.pc = "done", !.resp = resp, !.elig = eligId]

SelFind(r) ==
    /\ selProc[r].pc = "idle"
    /\ \E token \in RequestTokens, k \in 0..MaxProducts :
         LET check == SelectCheck(token, k, FindByToken(token), now)
             found == IF check = "invalid_request" THEN {} ELSE FindByToken(token)
         IN selProc' = [selProc EXCEPT ![r] =
               IF check = "ok"
               THEN [IdleSel EXCEPT !.pc = "found", !.token = token, !.k = k,
                        !.elig = (CHOOSE x \in found : TRUE).id,
                        !.afterReset =
                            ResetFromAppliedDone((CHOOSE x \in found : TRUE).id)]
               ELSE Responded(check,
                        IF found = {} THEN 0 ELSE (CHOOSE x \in found : TRUE).id)]
    /\ UNCHANGED <<now, giftSettings, appSettings, syncedSubscriber,
                   giftEligibility, giftSelection, nextId, emailsSent,
                   addCalls, resetProc, verifyProc>>
    /\ UNCHANGED cycleVars
    /\ UNCHANGED syncVars

\* const maxGifts = settings?.maxGiftProducts || 3
MaxGifts(shop) == OrDefault(giftSettings[shop].maxGiftProducts, DefaultMaxGifts)

\* a limit check that admits one product too many
OverLimitLax(k, maxGifts) == k > maxGifts + 1

\* products.length > maxGifts
OverLimit(k, maxGifts) == k > maxGifts

SelLimit(r) ==
    /\ selProc[r].pc = "found"
    /\ LET e == EligibilityById(selProc[r].elig) IN
       selProc' = [selProc EXCEPT ![r] =
           IF OverLimit(selProc[r].k, MaxGifts(e.shop))
           THEN Responded("over_limit", e.id)
           ELSE [@ EXCEPT !.pc = "limited"]]
    /\ UNCHANGED <<now, giftSettings, appSettings, syncedSubscriber,
                   giftEligibility, giftSelection, nextId, emailsSent,
                   addCalls, resetProc, verifyProc>>
    /\ UNCHANGED cycleVars
    /\ UNCHANGED syncVars

\* if (!appSettings?.appstleApiKey) -> 500 "Gift system is not configured"
SelConfig(r) ==
    /\ selProc[r].pc = "limited"
    /\ LET e == EligibilityById(selProc[r].elig) IN
       selProc' = [selProc EXCEPT ![r] =
           IF ~appSettings[e.shop]
           THEN Responded("not_configured", e.id)
           ELSE [@ EXCEPT !.pc = "validated"]]
    /\ UNCHANGED <<now, giftSettings, appSettings, syncedSubscriber,
                   giftEligibility, giftSelection, nextId, emailsSent,
                   addCalls, resetProc, verifyProc>>
    /\ UNCHANGED cycleVars
    /\ UNCHANGED syncVars

\* Promise.all(products.map(p => prisma.giftSelection.create(...)))
\* a mutation of NewSelections: only the first product's row is created
FirstSelectionOnly(eligId, k, first) ==
    {[id |-> first, giftEligibilityId |-> eligId, variantId |-> 1,
      addedToSubscription |-> FALSE, appstleLineId |-> ""]}

NewSelections(eligId, k, first) ==
    {[id |-> first + i - 1, giftEligibilityId |-> eligId, variantId |-> i,
      addedToSubscription |-> FALSE, appstleLineId |-> ""] : i \in 1..k}

SelCreate(r) ==
    /\ selProc[r].pc = "validated"
    /\ giftSelection' = giftSelection \cup
           NewSelections(selProc[r].elig, selProc[r].k, nextId.selection)
    /\ nextId' = [nextId EXCEPT !.selection = @ + selProc[r].k]
    /\ selProc' = [selProc EXCEPT ![r] =
           [@ EXCEPT !.pc = "created",
                     !.rows = [i \in 1..selProc[r].k |-> nextId.selection + i - 1]]]
    /\ UNCHANGED <<now, giftSettings, appSettings, syncedSubscriber,
                   giftEligibility, emailsSent, addCalls, resetProc, verifyProc>>
    /\ UNCHANGED cycleVars
    /\ UNCHANGED syncVars

\* the upstream's answers to the one-off PUT, as addGiftProduct tells them apart
UpstreamResponses ==
    {"array", "array_no_id", "empty_array", "object", "object_no_id", "error"}

\* AppstleService.addGiftProduct: { success, lineId }
AddGiftProduct(response) ==
    CASE response = "array"        -> [success |-> TRUE, lineId |-> "line"]
      [] response = "array_no_id"  -> [success |-> TRUE, lineId |-> ""]
      [] response = "empty_array"  -> [success |-> TRUE, lineId |-> ""]
      [] response = "object"       -> [success |-> TRUE, lineId |-> "line"]
      [] response = "object_no_id" -> [success |-> TRUE, lineId |-> ""]
      [] OTHER                     -> [success |-> FALSE, lineId |-> ""]

\* success as soon as one product was applied
SomeSuccess(results) == \E i \in DOMAIN results : results[i].success

\* const allSuccess = results.every((r) => r.success)
AllSuccess(results) == \A i \in DOMAIN results : results[i].success

\* results.filter((r) => r.success).length
SuccessCount(results) == Cardinality({i \in DOMAIN results : results[i].success})

\* AppstleService.addGiftProducts: one addGiftProduct call per product, in order
SelApply(r) ==
    /\ selProc[r].pc = "created"
    /\ \E answers \in [1..selProc[r].k -> UpstreamResponses] :
         selProc' = [selProc EXCEPT ![r] =
             [@ EXCEPT !.pc = "applied",
                       !.results = [i \in 1..selProc[r].k |->
                                       AddGiftProduct(answers[i])]]]
    /\ addCalls' = [addCalls EXCEPT ![r] = @ + selProc[r].k]
    /\ UNCHANGED <<now, giftSettings, appSettings, syncedSubscriber,
                   giftEligibility, giftSelection, nextId, emailsSent,
                   resetProc, verifyProc>>
    /\ UNCHANGED cycleVars
    /\ UNCHANGED syncVars

\* if (result.success && result.lineId): the row of product i is updated
MarksRow(result) == result.success /\ result.lineId # ""

\* the loop over addResults.results from product i on: prisma.giftSelection.update
\* throws when the row is gone (deleted by a reset), which ends the loop
RECURSIVE MarkRows(_, _, _, _)
MarkRows(sels, rows, results, i) ==
    IF i > Len(results) THEN [sels |-> sels, thrown |-> FALSE]
    ELSE IF ~MarksRow(results[i]) THEN MarkRows(sels, rows, results, i + 1)
    ELSE IF ~\E s \in sels : s.id = rows[i] THEN [sels |-> sels, thrown |-> TRUE]
    ELSE MarkRows({IF s.id = rows[i]
                      THEN [s EXCEPT !.addedToSubscription = TRUE,
                                     !.appstleLineId = results[i].lineId]
                      ELSE s : s \in sels},
                  rows, results, i + 1)

SelMark(r) ==
    /\ selProc[r].pc = "applied"
    /\ LET m == MarkRows(giftSelection, selProc[r].rows, selProc[r].results, 1) IN
       /\ giftSelection' = m.sels
       /\ selProc' = [selProc EXCEPT ![r] =
              IF m.thrown THEN Responded("error", selProc[r].elig)
              ELSE [@ EXCEPT !.pc = "marked"]]
    /\ UNCHANGED <<now, giftSettings, appSettings, syncedSubscriber,
                   giftEligibility, nextId, emailsSent, addCalls, resetProc,
                   verifyProc>>
    /\ UNCHANGED cycleVars
    /\ UNCHANGED syncVars

\* status: addResults.success ? "applied" : "selected"
FinalStatus(results) == IF AllSuccess(results) THEN "applied" ELSE "selected"

\* the response after the status update
SelectResponse(results) ==
    IF AllSuccess(results) THEN "success"
    ELSE IF SuccessCount(results) = 0 THEN "all_failed"
    ELSE "partial"

SelFinish(r) ==
    /\ selProc[r].pc = "marked"
    /\ giftEligibility' =
           UpdateEligibility(giftEligibility, selProc[r].elig,
               FinalStatus(selProc[r].results), now,
               IF AllSuccess(selProc[r].results) THEN now ELSE NULL)
    /\ selProc' = [selProc EXCEPT ![r] =
           Responded(SelectResponse(selProc[r].results), selProc[r].elig)]
    /\ UNCHANGED <<now, giftSettings, appSettings, syncedSubscriber,
                   giftSelection, nextId, emailsSent, addCalls, resetProc,
                   verifyProc>>
    /\ UNCHANGED cycleVars
    /\ UNCHANGED syncVars

----------------------------------------------------------------------------
\* Operator action resetStatus (app.gifts)

IdleReset == [pc |-> "idle", id |-> 0, from |-> "none"]

\* a delete that keeps the rows already added to the subscription
DeleteUnappliedSelections(sels, eligId) ==
    {s \in sels : s.giftEligibilityId # eligId \/ s.addedToSubscription}

\* prisma.giftSelection.deleteMany({ where: { giftEligibilityId } })
DeleteSelections(sels, eligId) == {s \in sels : s.giftEligibilityId # eligId}

\* `from` records the status the row had when the operator pressed reset
ResetDelete(o) ==
    /\ resetProc[o].pc = "idle"
    /\ \E e \in giftEligibility :
         /\ giftSelection' = DeleteSelections(giftSelection, e.id)
         /\ resetProc' = [resetProc EXCEPT ![o] =
                [pc |-> "deleted", id |-> e.id, from |-> e.status]]
    /\ UNCHANGED <<now, giftSettings, appSettings, syncedSubscriber,
                   giftEligibility, nextId, emailsSent, addCalls, selProc,
                   verifyProc>>
    /\ UNCHANGED cycleVars
    /\ UNCHANGED syncVars

\* data: { status: "pending", selectedAt: null, appliedAt: null }
ResetUpdate(o) ==
    /\ resetProc[o].pc = "deleted"
    /\ giftEligibility' =
           UpdateEligibility(giftEligibility, resetProc[o].id, "pending", NULL, NULL)
    /\ resetProc' = [resetProc EXCEPT ![o] = [@ EXCEPT !.pc = "done"]]
    /\ UNCHANGED <<now, giftSettings, appSettings, syncedSubscriber,
                   giftSelection, nextId, emailsSent, addCalls, selProc,
                   verifyProc>>
    /\ UNCHANGED cycleVars
    /\ UNCHANGED syncVars

----------------------------------------------------------------------------
\* Token verification: GET /api/gift/verify

IdleVerify == [pc |-> "idle", resp |-> "none", elig |-> 0]

\* the id of the row a lookup found, 0 when it found none
FoundId(found) == IF found = {} THEN 0 ELSE (CHOOSE x \in found : TRUE).id

\* a loader that does not look at the status of the row
VerifyCheckNoStatus(found, byEmail, claimed, t) ==
    IF found = {} THEN
        IF byEmail THEN (IF claimed THEN "already_claimed" ELSE "no_active_gift")
        ELSE "invalid_token"
    ELSE LET e == CHOOSE x \in found : TRUE IN
         IF IsExpired(e, t) THEN "expired" ELSE "valid"

\* the checks of the loader on the row it looked up
VerifyCheck(found, byEmail, claimed, t) ==
    IF found = {} THEN
        IF byEmail THEN (IF claimed THEN "already_claimed" ELSE "no_active_gift")
        ELSE "invalid_token"
    ELSE LET e == CHOOSE x \in found : TRUE IN
         IF IsExpired(e, t) THEN "expired"
         ELSE IF AlreadySelected(e) THEN "already_selected"
         ELSE "valid"

\* findFirst({ where: { customerEmail, status in [pending, email_sent],
\*              expiresAt > now }, orderBy: { createdAt: "desc" } })
LatestActiveByEmail(email, t) ==
    LET cands == {e \in giftEligibility :
                     /\ e.customerEmail = email
                     /\ e.status \in {"pending", "email_sent"}
                     /\ e.expiresAt > t}
    IN {e \in cands : \A x \in cands : x.createdAt <= e.createdAt}

\* findFirst({ where: { customerEmail, status in [selected, applied] } })
ClaimedByEmail(email) ==
    \E e \in giftEligibility :
        e.customerEmail = email /\ e.status \in {"selected", "applied"}

RequestEmails == {"nobody"} \cup {e.customerEmail : e \in giftEligibility}

VerifyByToken(v) ==
    /\ verifyProc[v].pc = "idle"
    /\ \E token \in RequestTokens \ {""} :
         LET found == FindByToken(token) IN
         verifyProc' = [verifyProc EXCEPT ![v] =
             [pc |-> "done", resp |-> VerifyCheck(found, FALSE, FALSE, now),
              elig |-> FoundId(found)]]
    /\ UNCHANGED <<now, giftSettings, appSettings, syncedSubscriber,
                   giftEligibility, giftSelection, nextId, emailsSent,
                   addCalls, selProc, resetProc>>
    /\ UNCHANGED cycleVars
    /\ UNCHANGED syncVars

VerifyByEmail(v) ==
    /\ verifyProc[v].pc = "idle"
    /\ \E email \in RequestEmails :
         LET latest == LatestActiveByEmail(email, now) IN
         \E found \in (IF latest = {} THEN {{}} ELSE {{e} : e \in latest}) :
             verifyProc' = [verifyProc EXCEPT ![v] =
                 [pc |-> "done",
                  resp |-> VerifyCheck(found, TRUE, ClaimedByEmail(email), now),
                  elig |-> FoundId(found)]]
    /\ UNCHANGED <<now, giftSettings, appSettings, syncedSubscriber,
                   giftEligibility, giftSelection, nextId, emailsSent,
                   addCalls, selProc, resetProc>>
    /\ UNCHANGED cycleVars
    /\ UNCHANGED syncVars

\* if (!token && !email) -> "No token or email provided"
VerifyNothing(v) ==
    /\ verifyProc[v].pc = "idle"
    /\ verifyProc' = [verifyProc EXCEPT ![v] =
           [pc |-> "done", resp |-> "nothing_provided", elig |-> 0]]
    /\ UNCHANGED <<now, giftSettings, appSettings, syncedSubscriber,
                   giftEligibility, giftSelection, nextId, emailsSent,
                   addCalls, selProc, resetProc>>
    /\ UNCHANGED cycleVars
    /\ UNCHANGED syncVars

----------------------------------------------------------------------------
\* Settings and the clock

\* saveSettings: parseInt(formData.get("maxGiftProducts")) || 3
SaveMaxGiftProducts(shop, input) ==
    /\ giftSettings' = [giftSettings EXCEPT ![shop] =
           [@ EXCEPT !.maxGiftProducts = OrDefault(input, DefaultMaxGifts)]]
    /\ giftSettings' # giftSettings
    /\ UNCHANGED <<now, appSettings, syncedSubscriber, giftEligibility,
                   giftSelection, nextId, emailsSent, addCalls, selProc,
                   resetProc, verifyProc>>
    /\ UNCHANGED cycleVars
    /\ UNCHANGED syncVars

\* saveSettings: enabled = formData.get("enabled") === "true"
SaveEnabled(shop, enabled) ==
    /\ giftSettings' = [giftSettings EXCEPT ![shop] = [@ EXCEPT !.enabled = enabled]]
    /\ giftSettings' # giftSettings
    /\ UNCHANGED <<now, appSettings, syncedSubscriber, giftEligibility,
                   giftSelection, nextId, emailsSent, addCalls, selProc,
                   resetProc, verifyProc>>
    /\ UNCHANGED cycleVars
    /\ UNCHANGED syncVars

\* time passes
Tick ==
    /\ now < MaxTime
    /\ now' = now + 1
    /\ UNCHANGED <<giftSettings, appSettings, syncedSubscriber, giftEligibility,
                   giftSelection, nextId, emailsSent, addCalls, selProc,
                   resetProc, verifyProc>>
    /\ UNCHANGED cycleVars
    /\ UNCHANGED syncVars

----------------------------------------------------------------------------
\* Milestone evaluator: step 2 of the scheduler cycle, the operator's
\* processEligible action and step 2 of the HTTP trigger endpoint

\* triggerOrderNumbers.split(",").map(n => parseInt(n.trim())).filter(n => !isNaN(n))
TriggerNumbers(settings) ==
    SelectSeq(settings.triggerOrderNumbers, LAMBDA n : n # NULL)

\* triggerNumbers.includes(n)
Includes(triggers, n) == \E i \in DOMAIN triggers : triggers[i] = n

\* an evaluation that takes the delivered count only when it is itself a trigger
ThresholdsExact(entry, triggers, orders) ==
    IF \E i \in DOMAIN triggers : triggers[i] = orders THEN <<orders>> ELSE <<>>

\* The order numbers one snapshot row is evaluated for.  The timer's cycle and
\* the operator's action take every configured trigger the delivered count has
\* reached; the HTTP trigger endpoint takes the delivered count itself when it
\* is one of the configured triggers.
Thresholds(entry, triggers, orders) ==
    IF entry = "trigger"
        THEN IF Includes(triggers, orders) THEN <<orders>> ELSE <<>>
        ELSE SelectSeq(triggers, LAMBDA t : orders >= t)

\* the orders in which findMany can return a set of rows
Orderings(S) ==
    {sq \in [1..Cardinality(S) -> S] :
        \A i, j \in 1..Cardinality(S) : i # j => sq[i] # sq[j]}

\* the (subscriber, order number) pairs the two nested loops visit, in order
RECURSIVE WorkList(_, _, _)
WorkList(entry, triggers, subs) ==
    IF subs = <<>> THEN <<>>
    ELSE LET sub == Head(subs)
             th == Thresholds(entry, triggers, sub.totalOrdersDelivered)
         IN  [i \in 1..Len(th) |-> [sub |-> sub, orderNumber |-> th[i]]]
                 \o WorkList(entry, triggers, Tail(subs))

\* the columns of the compound key shop_subscriptionContractId_orderNumber
EligibilityKey(e) == <<e.shop, e.subscriptionContractId, e.orderNumber>>

\* prisma.giftEligibility.findUnique({ where: { shop_subscriptionContractId_orderNumber } })
FindEligibility(rows, shop, contract, orderNumber) ==
    {e \in rows : EligibilityKey(e) = <<shop, contract, orderNumber>>}

\* a table without the unique index: no insert is refused
NoUniqueViolation(rows, shop, contract, orderNumber) == FALSE

\* The unique index on (shop, subscriptionContractId, orderNumber): an insert
\* whose key is held by a stored row is refused and the create call throws.
UniqueViolation(rows, shop, contract, orderNumber) ==
    \E e \in rows : EligibilityKey(e) = <<shop, contract, orderNumber>>

\* the rest of the evaluation after the pair at the head of the list
EvalAdvance(ev) ==
    [ev EXCEPT !.work = Tail(ev.work),
               !.pc = IF Len(ev.work) = 1 THEN "done" ELSE "find"]

\* global.__cronRunning: a cycle started by the timer is in progress
CronRunning ==
    \E q \in EvalRequests :
        evalProc[q].entry = "cron" /\ evalProc[q].pc \in {"find", "create"}

\* the evaluation with its loops about to run over the work list
EvalStarted(entry, work) ==
    IF work = <<>>
    THEN [IdleEval EXCEPT !.pc = "done", !.entry = entry]
    ELSE [IdleEval EXCEPT !.pc = "find", !.entry = entry, !.work = work]

\* the evaluation starts from one of the entry points: settings and the
\* snapshot are read; the timer's cycle is skipped while another is in progress
EvalBegin(p) ==
    /\ evalProc[p].pc = "idle"
    /\ \E shop \in Shops, entry \in EntryPoints :
       \E subs \in Orderings({s \in syncedSubscriber : s.shop = shop}) :
         LET settings == giftSettings[shop]
             work == WorkList(entry, TriggerNumbers(settings), subs)
         IN  evalProc' = [evalProc EXCEPT ![p] =
                 IF entry = "cron" /\ CronRunning
                     THEN [IdleEval EXCEPT !.pc = "done", !.entry = entry,
                                           !.error = "skipped"]
                 ELSE IF ~settings.enabled
                     THEN [IdleEval EXCEPT !.pc = "done", !.entry = entry,
                                           !.error = "disabled"]
                 ELSE EvalStarted(entry, work)]
    /\ UNCHANGED <<now, giftSettings, appSettings, syncedSubscriber,
                   giftEligibility, giftSelection, nextId, emailsSent,
                   dispProc, hookProc>>
    /\ UNCHANGED redeemVars
    /\ UNCHANGED syncVars

\* const existing = await prisma.giftEligibility.findUnique(...)
EvalFind(p) ==
    /\ evalProc[p].pc = "find"
    /\ LET item == Head(evalProc[p].work)
           existing == FindEligibility(giftEligibility, item.sub.shop,
                                       item.sub.contractId, item.orderNumber)
       IN  evalProc' = [evalProc EXCEPT ![p] =
               IF existing = {} THEN [@ EXCEPT !.pc = "create"]
                                ELSE EvalAdvance(@)]
    /\ UNCHANGED <<now, giftSettings, appSettings, syncedSubscriber,
                   giftEligibility, giftSelection, nextId, emailsSent,
                   dispProc, hookProc>>
    /\ UNCHANGED redeemVars
    /\ UNCHANGED syncVars

\* await prisma.giftEligibility.create(...): a refused insert throws, which
\* ends the evaluation (the step's catch, or the action's failure)
EvalCreate(p) ==
    /\ evalProc[p].pc = "create"
    /\ LET item == Head(evalProc[p].work)
           sub == item.sub
           refused == UniqueViolation(giftEligibility, sub.shop, sub.contractId,
                                      item.orderNumber)
           row == Eligibility(nextId.eligibility, sub.shop, sub.contractId,
                              sub.customerId, item.orderNumber, "pending", now,
                              NULL, now + giftSettings[sub.shop].giftExpiryDays)
       IN  IF refused
               THEN /\ evalProc' = [evalProc EXCEPT ![p] =
                           [@ EXCEPT !.pc = "done", !.work = <<>>,
                                     !.error = "unique_constraint"]]
                    /\ UNCHANGED <<giftEligibility, nextId>>
               ELSE /\ giftEligibility' = giftEligibility \cup {row}
                    /\ nextId' = [nextId EXCEPT !.eligibility = @ + 1]
                    /\ evalProc' = [evalProc EXCEPT ![p] = EvalAdvance(@)]
    /\ UNCHANGED <<now, giftSettings, appSettings, syncedSubscriber,
                   giftSelection, emailsSent, dispProc, hookProc>>
    /\ UNCHANGED redeemVars
    /\ UNCHANGED syncVars

\* the entry point is invoked again after its run has ended
EvalAgain(p) ==
    /\ evalProc[p].pc = "done"
    /\ evalProc' = [evalProc EXCEPT ![p] = IdleEval]
    /\ UNCHANGED <<now, giftSettings, appSettings, syncedSubscriber,
                   giftEligibility, giftSelection, nextId, emailsSent,
                   dispProc, hookProc>>
    /\ UNCHANGED redeemVars
    /\ UNCHANGED syncVars

----------------------------------------------------------------------------
\* Email dispatch: step 3 of the scheduler cycle, the operator's sendEmails
\* action and step 3 of the HTTP trigger endpoint

NoEmails == [dispatch |-> 0, webhook |-> 0]

\* emails delivered for an eligibility
EmailsOf(id) == IF id \in DOMAIN emailsSent THEN emailsSent[id] ELSE NoEmails

\* sendMagicLinkEmail delivered an email for the eligibility
Delivered(sent, id, by) ==
    LET old == IF id \in DOMAIN sent THEN sent[id] ELSE NoEmails
    IN  [i \in DOMAIN sent \cup {id} |->
            IF i = id THEN [old EXCEPT ![by] = @ + 1] ELSE sent[i]]

\* what a call of sendMagicLinkEmail can do: deliver, return a failure result,
\* or throw
SendOutcomes == {"sent", "failed", "thrown"}

\* a mutation of Dispatchable: the delay is not applied
DispatchableAtOnce(e, shop, delay, t) ==
    /\ e.shop = shop
    /\ e.status = "pending"
    /\ e.emailSentAt = NULL
    /\ e.expiresAt > t

\* where: { shop, status: "pending", emailSentAt: null,
\*          createdAt: { lte: cutoffDate }, expiresAt: { gt: new Date() } }
Dispatchable(e, shop, delay, t) ==
    /\ e.shop = shop
    /\ e.status = "pending"
    /\ e.emailSentAt = NULL
    /\ e.createdAt <= t - delay
    /\ e.expiresAt > t

\* the ids of a set of rows, in ascending order
RECURSIVE IdsOf(_)
IdsOf(rows) ==
    IF rows = {} THEN <<>>
    ELSE LET first == CHOOSE e \in rows : \A f \in rows : e.id <= f.id
         IN  <<first.id>> \o IdsOf(rows \ {first})

\* the set of the elements of a sequence
Range(sq) == {sq[i] : i \in DOMAIN sq}

\* a mutation of ClaimRows: only the first selected row is updated
ClaimFirstRow(rows, ids, t) ==
    {IF e.id \in ids /\ (\A i \in ids : e.id <= i)
        THEN [e EXCEPT !.status = "email_sent", !.emailSentAt = t]
        ELSE e : e \in rows}

\* updateMany({ where: { id: { in: ids } }, data: { status: "email_sent", emailSentAt: new Date() } })
ClaimRows(rows, ids, t) ==
    {IF e.id \in ids THEN [e EXCEPT !.status = "email_sent", !.emailSentAt = t]
                     ELSE e : e \in rows}

\* an update that also gives the row a later expiry
MarkFailedRenewed(rows, id) ==
    {IF e.id = id THEN [e EXCEPT !.status = "email_failed",
                                 !.expiresAt = @ + 1]
                  ELSE e : e \in rows}

\* update({ where: { id }, data: { status: "email_failed" } })
MarkFailed(rows, id) ==
    {IF e.id = id THEN [e EXCEPT !.status = "email_failed"] ELSE e : e \in rows}

\* the dispatch with the selected rows captured: if (pending.length > 0)
DispStarted(pending) ==
    IF pending = {}
    THEN [IdleDispatch EXCEPT !.pc = "done"]
    ELSE [IdleDispatch EXCEPT !.pc = "claim", !.captured = IdsOf(pending)]

\* const pendingEligibilities = await prisma.giftEligibility.findMany(...)
DispSelect(d) ==
    /\ dispProc[d].pc = "idle"
    /\ \E shop \in Shops :
         LET settings == giftSettings[shop]
             delay == OrDefault(settings.emailDelayDays, 0)
             pending == {e \in giftEligibility : Dispatchable(e, shop, delay, now)}
         IN  dispProc' = [dispProc EXCEPT ![d] =
                 IF ~settings.enabled \/ ~appSettings[shop]
                     THEN [IdleDispatch EXCEPT !.pc = "done"]
                     ELSE DispStarted(pending)]
    /\ UNCHANGED <<now, giftSettings, appSettings, syncedSubscriber,
                   giftEligibility, giftSelection, nextId, emailsSent,
                   evalProc, hookProc>>
    /\ UNCHANGED redeemVars
    /\ UNCHANGED syncVars

\* await prisma.giftEligibility.updateMany(...) over the selected ids
DispClaim(d) ==
    /\ dispProc[d].pc = "claim"
    /\ giftEligibility' = ClaimRows(giftEligibility, Range(dispProc[d].captured), now)
    /\ dispProc' = [dispProc EXCEPT ![d] = [@ EXCEPT !.pc = "send"]]
    /\ UNCHANGED <<now, giftSettings, appSettings, syncedSubscriber,
                   giftSelection, nextId, emailsSent, evalProc, hookProc>>
    /\ UNCHANGED redeemVars
    /\ UNCHANGED syncVars

\* the rest of the send loop after the row at the head of the list
DispAdvance(dp) ==
    [dp EXCEPT !.captured = Tail(dp.captured),
               !.pc = IF Len(dp.captured) = 1 THEN "done" ELSE "send"]

\* const emailResult = await service.sendMagicLinkEmail(eligibility.customerEmail)
DispSend(d) ==
    /\ dispProc[d].pc = "send"
    /\ \E outcome \in SendOutcomes :
         LET id == Head(dispProc[d].captured)
         IN  IF outcome = "sent"
                 THEN /\ emailsSent' = Delivered(emailsSent, id, "dispatch")
                      /\ dispProc' = [dispProc EXCEPT ![d] =
                             DispAdvance([@ EXCEPT !.sent = @ + 1])]
                 ELSE /\ dispProc' = [dispProc EXCEPT ![d] =
                             [@ EXCEPT !.pc = "fail", !.failed = @ + 1]]
                      /\ UNCHANGED emailsSent
    /\ UNCHANGED <<now, giftSettings, appSettings, syncedSubscriber,
                   giftEligibility, giftSelection, nextId, evalProc, hookProc>>
    /\ UNCHANGED redeemVars
    /\ UNCHANGED syncVars

\* the failed send's row is marked email_failed
DispFail(d) ==
    /\ dispProc[d].pc = "fail"
    /\ giftEligibility' = MarkFailed(giftEligibility, Head(dispProc[d].captured))
    /\ dispProc' = [dispProc EXCEPT ![d] = DispAdvance(@)]
    /\ UNCHANGED <<now, giftSettings, appSettings, syncedSubscriber,
                   giftSelection, nextId, emailsSent, evalProc, hookProc>>
    /\ UNCHANGED redeemVars
    /\ UNCHANGED syncVars

\* the update to email_failed throws inside the send's catch block: the
\* exception leaves the loop for the step's catch, and the rows not yet
\* reached stay as the updateMany set them
DispFailThrows(d) ==
    /\ dispProc[d].pc = "fail"
    /\ dispProc' = [dispProc EXCEPT ![d] = [@ EXCEPT !.pc = "done"]]
    /\ UNCHANGED <<now, giftSettings, appSettings, syncedSubscriber,
                   giftEligibility, giftSelection, nextId, emailsSent,
                   evalProc, hookProc>>
    /\ UNCHANGED redeemVars
    /\ UNCHANGED syncVars

----------------------------------------------------------------------------
\* ORDERS_PAID webhook: handleOrderPaid

\* the customers an order can belong to: none (0: the payload carries no
\* customer), a customer of the snapshot, or one without a snapshot row
Customers == 0..(MaxContracts + 1)

\* what getPastOrders reports as totalSuccessOrders, from below the lowest
\* trigger to above the highest; NULL: the call throws
PastOrders == {NULL} \cup ((MinOrders - 1)..(MaxOrders + 1))

\* subscriber?.contractId || `order-${payload.id}`
ContractOf(shop, customer, orderId) ==
    LET subs == {s \in syncedSubscriber : s.shop = shop /\ s.customerId = customer}
    IN  IF subs = {} THEN "order-" \o ToString(orderId)
                     ELSE (CHOOSE s \in subs : TRUE).contractId

HookDone == [IdleHook EXCEPT !.pc = "done"]

\* a mutation of HitsTrigger: a count that has passed a trigger also counts
PassedTrigger(triggers, completedOrders) ==
    \E i \in DOMAIN triggers : triggers[i] <= completedOrders

\* triggerNumbers.includes(completedOrders)
HitsTrigger(triggers, completedOrders) == Includes(triggers, completedOrders)

\* the event of a customer arrives, and the upstream reports completedOrders:
\* customer, settings, triggers, API key, completed orders and the customer's
\* contract are read
HookArrives(h, shop, customer, completedOrders) ==
    /\ hookProc[h].pc = "idle"
    /\ LET settings == giftSettings[shop]
           triggers == TriggerNumbers(settings)
           skipped == \/ customer = 0
                      \/ ~settings.enabled
                      \/ triggers = <<>>
                      \/ ~appSettings[shop]
                      \/ completedOrders = NULL
                      \/ ~HitsTrigger(triggers, completedOrders)
       IN  hookProc' = [hookProc EXCEPT ![h] =
               IF skipped THEN HookDone
               ELSE [IdleHook EXCEPT !.pc = "find", !.customer = customer,
                                     !.orders = completedOrders,
                                     !.contract = ContractOf(shop, customer, 1),
                                     !.delay = settings.emailDelayDays]]
    /\ UNCHANGED <<now, giftSettings, appSettings, syncedSubscriber,
                   giftEligibility, giftSelection, nextId, emailsSent,
                   evalProc, dispProc>>
    /\ UNCHANGED redeemVars
    /\ UNCHANGED syncVars

HookBegin(h) ==
    \E shop \in Shops, customer \in Customers, completedOrders \in PastOrders :
        HookArrives(h, shop, customer, completedOrders)

\* const existing = await prisma.giftEligibility.findUnique(...)
HookFind(h) ==
    /\ hookProc[h].pc = "find"
    /\ LET hp == hookProc[h]
           existing == FindEligibility(giftEligibility, "shop1", hp.contract, hp.orders)
       IN  hookProc' = [hookProc EXCEPT ![h] =
               IF existing = {} THEN [@ EXCEPT !.pc = "create"] ELSE HookDone]
    /\ UNCHANGED <<now, giftSettings, appSettings, syncedSubscriber,
                   giftEligibility, giftSelection, nextId, emailsSent,
                   evalProc, dispProc>>
    /\ UNCHANGED redeemVars
    /\ UNCHANGED syncVars

\* const eligibility = await prisma.giftEligibility.create(...); the email
\* is sent immediately only if giftSettings.emailDelayDays === 0
HookCreate(h) ==
    /\ hookProc[h].pc = "create"
    /\ LET hp == hookProc[h]
           refused == UniqueViolation(giftEligibility, "shop1", hp.contract, hp.orders)
           row == Eligibility(nextId.eligibility, "shop1", hp.contract,
                              hp.customer, hp.orders, "pending", now, NULL,
                              now + giftSettings["shop1"].giftExpiryDays)
       IN  IF refused
               THEN /\ hookProc' = [hookProc EXCEPT ![h] = HookDone]
                    /\ UNCHANGED <<giftEligibility, nextId>>
               ELSE /\ giftEligibility' = giftEligibility \cup {row}
                    /\ nextId' = [nextId EXCEPT !.eligibility = @ + 1]
                    /\ hookProc' = [hookProc EXCEPT ![h] =
                           IF hp.delay = 0
                               THEN [@ EXCEPT !.pc = "send", !.elig = row.id]
                               ELSE [HookDone EXCEPT !.elig = row.id]]
    /\ UNCHANGED <<now, giftSettings, appSettings, syncedSubscriber,
                   giftSelection, emailsSent, evalProc, dispProc>>
    /\ UNCHANGED redeemVars
    /\ UNCHANGED syncVars

\* const emailResult = await service.sendMagicLinkEmail(customerEmail)
HookSend(h) ==
    /\ hookProc[h].pc = "send"
    /\ \E outcome \in SendOutcomes :
         IF outcome = "sent"
             THEN /\ emailsSent' = Delivered(emailsSent, hookProc[h].elig, "webhook")
                  /\ hookProc' = [hookProc EXCEPT ![h] = [@ EXCEPT !.pc = "mark"]]
             ELSE /\ hookProc' = [hookProc EXCEPT ![h] =
                         [HookDone EXCEPT !.elig = hookProc[h].elig]]
                  /\ UNCHANGED emailsSent
    /\ UNCHANGED <<now, giftSettings, appSettings, syncedSubscriber,
                   giftEligibility, giftSelection, nextId, evalProc, dispProc>>
    /\ UNCHANGED redeemVars
    /\ UNCHANGED syncVars

\* update({ where: { id: eligibility.id }, data: { status: "email_sent", emailSentAt: new Date() } })
HookMark(h) ==
    /\ hookProc[h].pc = "mark"
    /\ giftEligibility' = ClaimRows(giftEligibility, {hookProc[h].elig}, now)
    /\ hookProc' = [hookProc EXCEPT ![h] = [HookDone EXCEPT !.elig = hookProc[h].elig]]
    /\ UNCHANGED <<now, giftSettings, appSettings, syncedSubscriber,
                   giftSelection, nextId, emailsSent, evalProc, dispProc>>
    /\ UNCHANGED redeemVars
    /\ UNCHANGED syncVars

----------------------------------------------------------------------------
\* Redemption specification: one eligibility that has been issued (and
\* possibly emailed), selection submissions, verifications, an operator reset

InitRedeem ==
    /\ now = 0
    /\ giftSettings = [s \in Shops |-> Settings(DefaultMaxGifts, 0)]
    /\ appSettings = [s \in Shops |-> TRUE]
    /\ syncedSubscriber = {}
    /\ \E status \in {"pending", "email_sent", "email_failed"} :
         giftEligibility =
             {Eligibility(1, "shop1", "1", 1, MinOrders, status, 0,
                          IF status = "pending" THEN NULL ELSE 0, GiftExpiryDays)}
    /\ giftSelection = {}
    /\ nextId = [eligibility |-> 2, selection |-> 1]
    /\ emailsSent = [i \in {} |-> NoEmails]
    /\ addCalls = [r \in SelectRequests |-> 0]
    /\ selProc = [r \in SelectRequests |-> IdleSel]
    /\ resetProc = [o \in ResetRequests |-> IdleReset]
    /\ verifyProc = [v \in VerifyRequests |-> IdleVerify]
    /\ evalProc = [p \in EvalRequests |-> IdleEval]
    /\ dispProc = [d \in DispatchRequests |-> IdleDispatch]
    /\ hookProc = [h \in HookRequests |-> IdleHook]
    /\ NoSync

\* the submission that arrives first
FirstSelect == "q1"

\* Requests are numbered in their order of arrival.
Earlier(r) == IF r = "q2" THEN {"q1"} ELSE {}

\* r arrives after the earlier requests have arrived
Arrived(r) == \A q \in Earlier(r) : selProc[q].pc # "idle"

\* r arrives after the earlier requests have been answered
Answered(r) == \A q \in Earlier(r) : selProc[q].pc = "done"

\* the steps of a submission after its first
SelSteps(r) ==
    \/ SelLimit(r)
    \/ SelConfig(r)
    \/ SelCreate(r)
    \/ SelApply(r)
    \/ SelMark(r)
    \/ SelFinish(r)

\* Submissions that arrive one after the other, while the operator resets,
\* the limit is reconfigured and time passes.
NextRedeem ==
    \/ Tick
    \/ \E s \in Shops, m \in 0..MaxProducts : SaveMaxGiftProducts(s, m)
    \/ \E r \in SelectRequests : Answered(r) /\ SelFind(r)
    \/ \E r \in SelectRequests : SelSteps(r)
    \/ \E o \in ResetRequests : ResetDelete(o)
    \/ \E o \in ResetRequests : ResetUpdate(o)

SpecRedeem == InitRedeem /\ [][NextRedeem]_vars

\* Two submissions whose steps interleave arbitrarily.
NextRace ==
    \/ \E r \in SelectRequests : Arrived(r) /\ SelFind(r)
    \/ \E r \in SelectRequests : SelSteps(r)

SpecRace == InitRedeem /\ [][NextRace]_vars

\* Submissions and verifications of a token while time passes.
NextVerify ==
    \/ Tick
    \/ \E r \in SelectRequests : Answered(r) /\ SelFind(r)
    \/ \E r \in SelectRequests : SelSteps(r)
    \/ \E v \in VerifyRequests : VerifyByToken(v)
    \/ \E v \in VerifyRequests : VerifyByEmail(v)
    \/ \E v \in VerifyRequests : VerifyNothing(v)

SpecVerify == InitRedeem /\ [][NextVerify]_vars

----------------------------------------------------------------------------
\* Evaluation specification: a subscriber snapshot, the three entry points of
\* the evaluator run repeatedly and interleaved, and an order-paid event

\* a SyncedSubscriber row; contract c belongs to customer c
Subscriber(shop, c, orders) ==
    [shop |-> shop, contractId |-> ToString(c), customerId |-> c,
     customerEmail |-> ToString(c), totalOrdersDelivered |-> orders]

\* the stored trigger text: the lowest and the highest count, and a field
\* that is not a number
TriggerText == <<MinOrders, NULL, MaxOrders>>

InitEval ==
    /\ now = 0
    /\ giftSettings = [s \in Shops |->
           [Settings(DefaultMaxGifts, 1) EXCEPT !.triggerOrderNumbers = TriggerText]]
    /\ appSettings = [s \in Shops |-> TRUE]
    /\ \E orders \in [1..MaxContracts -> MinOrders..MaxOrders] :
         syncedSubscriber = {Subscriber("shop1", c, orders[c]) : c \in 1..MaxContracts}
    /\ giftEligibility = {}
    /\ giftSelection = {}
    /\ nextId = [eligibility |-> 1, selection |-> 1]
    /\ emailsSent = [i \in {} |-> NoEmails]
    /\ addCalls = [r \in SelectRequests |-> 0]
    /\ selProc = [r \in SelectRequests |-> IdleSel]
    /\ resetProc = [o \in ResetRequests |-> IdleReset]
    /\ verifyProc = [v \in VerifyRequests |-> IdleVerify]
    /\ evalProc = [p \in EvalRequests |-> IdleEval]
    /\ dispProc = [d \in DispatchRequests |-> IdleDispatch]
    /\ hookProc = [h \in HookRequests |-> IdleHook]
    /\ NoSync

NextEval ==
    \/ \E p \in EvalRequests : EvalBegin(p)
    \/ \E p \in EvalRequests : EvalFind(p)
    \/ \E p \in EvalRequests : EvalCreate(p)
    \/ \E p \in EvalRequests : EvalAgain(p)
    \/ \E h \in HookRequests : HookBegin(h)
    \/ \E h \in HookRequests : HookFind(h)
    \/ \E h \in HookRequests : HookCreate(h)

SpecEval == InitEval /\ [][NextEval]_vars

\* An order-paid event while one evaluation runs
NextHook ==
    \/ \E h \in HookRequests : HookBegin(h) \/ HookFind(h) \/ HookCreate(h)
    \/ \E p \in {"e1"} : EvalBegin(p) \/ EvalFind(p) \/ EvalCreate(p)

SpecHook == InitEval /\ [][NextHook]_vars

----------------------------------------------------------------------------
\* Dispatch specification: pending eligibilities issued by the evaluator, two
\* dispatch invocations whose steps interleave, and an order-paid event for a
\* shop that sends immediately (emailDelayDays = 0)

\* number of pending eligibilities at the start
MaxPending == 2

InitDispatch ==
    /\ now = 0
    /\ giftSettings = [s \in Shops |-> Settings(DefaultMaxGifts, 0)]
    /\ appSettings = [s \in Shops |-> TRUE]
    /\ syncedSubscriber = {Subscriber("shop1", c, MinOrders) : c \in 1..MaxContracts}
    /\ \E n \in 1..MaxPending :
         /\ giftEligibility =
                {Eligibility(i, "shop1", ToString(i), i, MinOrders, "pending",
                             0, NULL, GiftExpiryDays) : i \in 1..n}
         /\ nextId = [eligibility |-> n + 1, selection |-> 1]
    /\ giftSelection = {}
    /\ emailsSent = [i \in {} |-> NoEmails]
    /\ addCalls = [r \in SelectRequests |-> 0]
    /\ selProc = [r \in SelectRequests |-> IdleSel]
    /\ resetProc = [o \in ResetRequests |-> IdleReset]
    /\ verifyProc = [v \in VerifyRequests |-> IdleVerify]
    /\ evalProc = [p \in EvalRequests |-> IdleEval]
    /\ dispProc = [d \in DispatchRequests |-> IdleDispatch]
    /\ hookProc = [h \in HookRequests |-> IdleHook]
    /\ NoSync

NextDispatch ==
    \/ Tick
    \/ \E d \in DispatchRequests : DispSelect(d)
    \/ \E d \in DispatchRequests : DispClaim(d)
    \/ \E d \in DispatchRequests : DispSend(d)
    \/ \E d \in DispatchRequests : DispFail(d)
    \/ \E h \in HookRequests : HookBegin(h)
    \/ \E h \in HookRequests : HookFind(h)
    \/ \E h \in HookRequests : HookCreate(h)
    \/ \E h \in HookRequests : HookSend(h)
    \/ \E h \in HookRequests : HookMark(h)

SpecDispatch == InitDispatch /\ [][NextDispatch]_vars

\* Dispatch runs alone, interleaved, while time passes
NextSend ==
    \/ Tick
    \/ \E d \in DispatchRequests :
         DispSelect(d) \/ DispClaim(d) \/ DispSend(d) \/ DispFail(d)

SpecSend == InitDispatch /\ [][NextSend]_vars

\* the dispatch run that starts first
FirstDispatch == "d1"

\* A dispatch run and an order-paid event while a customer, who has found the
\* token of a pending row through the verification endpoint's lookup by
\* email, submits a selection; and then the operator's reset
NextTaken ==
    \/ DispSelect(FirstDispatch)
    \/ DispClaim(FirstDispatch)
    \/ DispSend(FirstDispatch)
    \/ DispFail(FirstDispatch)
    \/ \E h \in HookRequests :
         HookBegin(h) \/ HookFind(h) \/ HookCreate(h) \/ HookSend(h) \/ HookMark(h)
    \/ SelFind(FirstSelect)
    \/ SelSteps(FirstSelect)
    \/ /\ selProc[FirstSelect].pc = "done"
       /\ dispProc[FirstDispatch].pc = "done"
       /\ \E o \in ResetRequests : ResetDelete(o)
    \/ \E o \in ResetRequests : ResetUpdate(o)

SpecTaken == InitDispatch /\ [][NextTaken]_vars

\* One dispatch run whose database updates can throw, while time passes
NextAbort ==
    \/ Tick
    \/ DispSelect(FirstDispatch)
    \/ DispClaim(FirstDispatch)
    \/ DispSend(FirstDispatch)
    \/ DispFail(FirstDispatch)
    \/ DispFailThrows(FirstDispatch)

SpecAbort == InitDispatch /\ [][NextAbort]_vars

\* The operator switches the gift system off and on while an evaluation, a
\* dispatch run and an order-paid event are under way
InitSwitch ==
    /\ now = 0
    /\ giftSettings = [s \in Shops |-> Settings(DefaultMaxGifts, 0)]
    /\ appSettings = [s \in Shops |-> TRUE]
    /\ syncedSubscriber = {Subscriber("shop1", c, MinOrders) : c \in 1..MaxContracts}
    /\ giftEligibility = {}
    /\ giftSelection = {}
    /\ nextId = [eligibility |-> 1, selection |-> 1]
    /\ emailsSent = [i \in {} |-> NoEmails]
    /\ addCalls = [r \in SelectRequests |-> 0]
    /\ selProc = [r \in SelectRequests |-> IdleSel]
    /\ resetProc = [o \in ResetRequests |-> IdleReset]
    /\ verifyProc = [v \in VerifyRequests |-> IdleVerify]
    /\ evalProc = [p \in EvalRequests |-> IdleEval]
    /\ dispProc = [d \in DispatchRequests |-> IdleDispatch]
    /\ hookProc = [h \in HookRequests |-> IdleHook]
    /\ NoSync

NextSwitch ==
    \/ \E shop \in Shops, enabled \in BOOLEAN : SaveEnabled(shop, enabled)
    \/ \E p \in {"e1"} : EvalBegin(p) \/ EvalFind(p) \/ EvalCreate(p)
    \/ \E h \in HookRequests :
         HookBegin(h) \/ HookFind(h) \/ HookCreate(h) \/ HookSend(h) \/ HookMark(h)
    \/ DispSelect(FirstDispatch)
    \/ DispClaim(FirstDispatch)
    \/ DispSend(FirstDispatch)
    \/ DispFail(FirstDispatch)

SpecSwitch == InitSwitch /\ [][NextSwitch]_vars

\* the largest email delay, in days, the operator configures here
MaxDelay == 1

\* the expiry dates of the rows at the start: rows were created at 0 under
\* the giftExpiryDays of their day, which the operator may have changed since
Expiries == GiftExpiryDays..(MaxTime + 1)

\* Dispatch with a delay: pending rows that are not yet due or that expire,
\* two dispatch runs, and time
InitGate ==
    /\ now = 0
    /\ \E delay \in 0..MaxDelay :
         giftSettings = [s \in Shops |-> Settings(DefaultMaxGifts, delay)]
    /\ appSettings = [s \in Shops |-> TRUE]
    /\ syncedSubscriber = {Subscriber("shop1", c, MinOrders) : c \in 1..MaxContracts}
    /\ \E n \in 1..MaxPending : \E expiry \in Expiries :
         /\ giftEligibility =
                {Eligibility(i, "shop1", ToString(i), i, MinOrders, "pending",
                             0, NULL, expiry) : i \in 1..n}
         /\ nextId = [eligibility |-> n + 1, selection |-> 1]
    /\ giftSelection = {}
    /\ emailsSent = [i \in {} |-> NoEmails]
    /\ addCalls = [r \in SelectRequests |-> 0]
    /\ selProc = [r \in SelectRequests |-> IdleSel]
    /\ resetProc = [o \in ResetRequests |-> IdleReset]
    /\ verifyProc = [v \in VerifyRequests |-> IdleVerify]
    /\ evalProc = [p \in EvalRequests |-> IdleEval]
    /\ dispProc = [d \in DispatchRequests |-> IdleDispatch]
    /\ hookProc = [h \in HookRequests |-> IdleHook]
    /\ NoSync

NextGate ==
    \/ Tick
    \/ \E d \in DispatchRequests : DispSelect(d)
    \/ \E d \in DispatchRequests : DispClaim(d)
    \/ \E d \in DispatchRequests : DispSend(d)
    \/ \E d \in DispatchRequests : DispFail(d)

SpecGate == InitGate /\ [][NextGate]_vars

\* The same with the operator's reset of a row
NextRetry ==
    \/ NextGate
    \/ \E o \in ResetRequests : ResetDelete(o)
    \/ \E o \in ResetRequests : ResetUpdate(o)

SpecRetry == InitGate /\ [][NextRetry]_vars

----------------------------------------------------------------------------
\* Single-pass specification: one evaluation pass, started from one of the
\* entry points, over a snapshot and eligibilities issued on an earlier day

\* the request that runs the pass
PassRequests == {"e1"}

\* the stored trigger text: the lowest and the highest count of the snapshot,
\* a field that is not a number, and a count no subscriber has reached
PassTriggerText == <<MinOrders, MaxOrders, NULL, MaxOrders + 1>>

\* the milestones that can have been issued earlier
EarlierMilestones == (1..MaxContracts) \X {MinOrders, MaxOrders}

\* the id of the row issued earlier for a milestone
EarlierId(c, t) == 2 * (c - 1) + (IF t = MinOrders THEN 1 ELSE 2)

InitPass ==
    /\ now = 1
    /\ giftSettings = [s \in Shops |->
           [Settings(DefaultMaxGifts, 1) EXCEPT !.triggerOrderNumbers = PassTriggerText]]
    /\ appSettings = [s \in Shops |-> TRUE]
    /\ \E orders \in [1..MaxContracts -> MinOrders..MaxOrders] :
         syncedSubscriber = {Subscriber("shop1", c, orders[c]) : c \in 1..MaxContracts}
    /\ \E issued \in SUBSET EarlierMilestones :
         giftEligibility =
             {Eligibility(EarlierId(m[1], m[2]), "shop1", ToString(m[1]), m[1],
                          m[2], "pending", 0, NULL, GiftExpiryDays) : m \in issued}
    /\ giftSelection = {}
    /\ nextId = [eligibility |-> 2 * MaxContracts + 1, selection |-> 1]
    /\ emailsSent = [i \in {} |-> NoEmails]
    /\ addCalls = [r \in SelectRequests |-> 0]
    /\ selProc = [r \in SelectRequests |-> IdleSel]
    /\ resetProc = [o \in ResetRequests |-> IdleReset]
    /\ verifyProc = [v \in VerifyRequests |-> IdleVerify]
    /\ evalProc = [p \in EvalRequests |-> IdleEval]
    /\ dispProc = [d \in DispatchRequests |-> IdleDispatch]
    /\ hookProc = [h \in HookRequests |-> IdleHook]
    /\ NoSync

NextPass ==
    \/ Tick
    \/ \E p \in PassRequests : EvalBegin(p)
    \/ \E p \in PassRequests : EvalFind(p)
    \/ \E p \in PassRequests : EvalCreate(p)

SpecPass == InitPass /\ [][NextPass]_vars

----------------------------------------------------------------------------
\* The upstream contract listing and getAllSubscriptionContracts

\* const pageSize = 100
PageSize == 100
\* if (page > 1000) break
PageCeiling == 1000
\* the upstream lists at most this many full pages of contracts
MaxPages == 2

\* a gid that does not end in digits
NoDigits == 0 - 2

\* an upstream contract. Its shape says which identifier fields the payload
\* carries; orders is totalSuccessfulOrders, NULL when the field is absent
Contract(id, shape, orders) ==
    [id |-> id,
     subscriptionContractId |-> IF shape = "external" THEN 1000 + id ELSE NULL,
     graphSubscriptionContractId |->
         CASE shape = "graph" -> 2000 + id
           [] shape = "opaque" -> NoDigits
           [] OTHER -> NULL,
     contractId |-> IF shape = "legacy" THEN 3000 + id ELSE NULL,
     customerId |-> id,
     customerEmail |-> ToString(id),
     totalSuccessfulOrders |-> orders]

Min(a, b) == IF a <= b THEN a ELSE b

\* response.content of the listing endpoint for ?page=&size=
PageContent(up, page, size) ==
    SubSeq(up.contracts, page * size + 1,
           Min((page + 1) * size, Len(up.contracts)))

\* response.last: an honest upstream sets it on its final page, another omits
\* the field, a third reports last = false on every page
PageLast(up, page, size) ==
    CASE up.last = "honest" ->
             IF (page + 1) * size >= Len(up.contracts) THEN "true" ELSE "false"
      [] up.last = "never" -> "false"
      [] OTHER -> "absent"

\* hasMore = response.last === false || (response.empty === false &&
\* contracts.length === pageSize) || contracts.length === pageSize
HasMore(last, contracts, size) ==
    \/ last = "false"
    \/ (contracts # <<>> /\ Len(contracts) = size)
    \/ Len(contracts) = size

\* makeRequest throws on a response that is not ok
PageThrows(up, page) == up.failAt = page

\* getSubscriptionContracts(page, pageSize)
GetSubscriptionContracts(up, page, size) ==
    [subscriptionContracts |-> PageContent(up, page, size),
     hasMore |-> HasMore(PageLast(up, page, size),
                         PageContent(up, page, size), size)]

\* a mutation of Accumulate: only the last page is kept
KeepLastPage(allContracts, contracts) == contracts

\* allContracts.push(...response.subscriptionContracts)
Accumulate(allContracts, contracts) == allContracts \o contracts

\* getAllSubscriptionContracts is called: page = 0, hasMore = true
FetchBegin(f) ==
    /\ fetchProc[f].pc = "idle"
    /\ \E shop \in DOMAIN upstream :
           fetchProc' = [fetchProc EXCEPT ![f] =
               [IdleFetch EXCEPT !.pc = "loop", !.shop = shop]]
    /\ UNCHANGED <<now, giftSettings, appSettings, syncedSubscriber,
                   giftEligibility, giftSelection, nextId, emailsSent>>
    /\ UNCHANGED <<upstream, syncLog, syncProc, cycleProc, cronRunning, applyProc,
                   extraCopies>>
    /\ UNCHANGED cycleVars
    /\ UNCHANGED redeemVars

\* one turn of while (hasMore): the page is awaited and pushed, page++, and
\* the loop is left when hasMore is false or page > 1000; a throwing request
\* rejects the whole call
FetchPage(f) ==
    /\ fetchProc[f].pc = "loop"
    /\ fetchProc[f].hasMore
    /\ LET r == fetchProc[f]
           up == upstream[r.shop]
           response == GetSubscriptionContracts(up, r.page, PageSize)
           page == r.page + 1
       IN  fetchProc' = [fetchProc EXCEPT ![f] =
               IF PageThrows(up, r.page)
               THEN [r EXCEPT !.pc = "thrown"]
               ELSE [r EXCEPT
                       !.allContracts =
                           Accumulate(r.allContracts,
                                      response.subscriptionContracts),
                       !.hasMore = response.hasMore,
                       !.page = page,
                       !.pc = IF page > PageCeiling \/ ~response.hasMore
                              THEN "returned" ELSE "loop"]]
    /\ UNCHANGED <<now, giftSettings, appSettings, syncedSubscriber,
                   giftEligibility, giftSelection, nextId, emailsSent>>
    /\ UNCHANGED <<upstream, syncLog, syncProc, cycleProc, cronRunning, applyProc,
                   extraCopies>>
    /\ UNCHANGED cycleVars
    /\ UNCHANGED redeemVars

\* the upstreams of the listing: up to MaxPages full pages and one contract
\* more, each kind of last field, and a request that fails at some page
ListingLengths == {k * PageSize + r : k \in 0..MaxPages, r \in {0, 1}}
Listing(n) == [i \in 1..n |-> Contract(i, "external", MinOrders)]
Upstreams ==
    {[contracts |-> Listing(n), last |-> l, failAt |-> a] :
        n \in ListingLengths, l \in {"honest", "absent", "never"},
        a \in {NULL} \cup (0..MaxPages)}

InitFetch ==
    /\ now = 0
    /\ giftSettings = [s \in Shops |-> Settings(DefaultMaxGifts, 1)]
    /\ appSettings = [s \in Shops |-> TRUE]
    /\ syncedSubscriber = {}
    /\ giftEligibility = {}
    /\ giftSelection = {}
    /\ nextId = [eligibility |-> 1, selection |-> 1]
    /\ emailsSent = [i \in {} |-> NoEmails]
    /\ addCalls = [r \in SelectRequests |-> 0]
    /\ selProc = [r \in SelectRequests |-> IdleSel]
    /\ resetProc = [o \in ResetRequests |-> IdleReset]
    /\ verifyProc = [v \in VerifyRequests |-> IdleVerify]
    /\ evalProc = [p \in EvalRequests |-> IdleEval]
    /\ dispProc = [d \in DispatchRequests |-> IdleDispatch]
    /\ hookProc = [h \in HookRequests |-> IdleHook]
    /\ \E up \in Upstreams : upstream = [s \in Shops |-> up]
    /\ syncLog = <<>>
    /\ fetchProc = [f \in FetchRequests |-> IdleFetch]
    /\ syncProc = [r \in SyncRequests |-> IdleSync]
    /\ cycleProc = [y \in CycleRequests |-> IdleCycle]
    /\ cronRunning = FALSE
    /\ applyProc = [a \in ApplyRequests |-> IdleApply]
    /\ extraCopies = <<>>

NextFetch == \E f \in FetchRequests : FetchBegin(f) \/ FetchPage(f)

\* the event loop resumes every awaited page request
SpecFetch == InitFetch /\ [][NextFetch]_vars /\ WF_vars(NextFetch)

----------------------------------------------------------------------------
\* The reconciliation of the subscriber snapshot: step 1 of runCronJob and of
\* the trigger endpoint, and the operator's sync action

\* the upstream of a reconciliation lists at most this many contracts
MaxUpstream == 2

\* the whole of getAllSubscriptionContracts, from a page on
RECURSIVE GetAllFrom(_, _, _)
GetAllFrom(up, page, allContracts) ==
    IF PageThrows(up, page)
    THEN [thrown |-> TRUE, contracts |-> <<>>]
    ELSE LET response == GetSubscriptionContracts(up, page, PageSize)
             pushed == Accumulate(allContracts, response.subscriptionContracts)
         IN  IF page + 1 > PageCeiling \/ ~response.hasMore
             THEN [thrown |-> FALSE, contracts |-> pushed]
             ELSE GetAllFrom(up, page + 1, pushed)

GetAllSubscriptionContracts(up) == GetAllFrom(up, 0, <<>>)

\* filterByMinOrders: (contract.totalSuccessfulOrders || 0) >= minOrders
FilterByMinOrders(contracts, minOrders) ==
    SelectSeq(contracts, LAMBDA c :
        (IF c.totalSuccessfulOrders = NULL THEN 0
         ELSE c.totalSuccessfulOrders) >= minOrders)

\* syncSubscribers({ minOrdersDelivered: 3 }): no status filter is passed
SyncSubscribers(up) ==
    LET fetched == GetAllSubscriptionContracts(up)
    IN  [thrown |-> fetched.thrown,
         totalFetched |-> Len(fetched.contracts),
         filteredSubscribers |-> FilterByMinOrders(fetched.contracts, MinOrders)]

\* subscriptionId: subscriptionContractId, else the digits that end
\* graphSubscriptionContractId (contract.id when it ends in none), else
\* contractId || id
SubscriptionId(contract) ==
    IF contract.subscriptionContractId # NULL
    THEN contract.subscriptionContractId
    ELSE IF contract.graphSubscriptionContractId # NULL
         THEN IF contract.graphSubscriptionContractId # NoDigits
              THEN contract.graphSubscriptionContractId
              ELSE contract.id
         ELSE IF contract.contractId # NULL
              THEN contract.contractId
              ELSE contract.id

\* the data of prisma.syncedSubscriber.create
SnapshotRow(shop, contract) ==
    [shop |-> shop,
     contractId |-> ToString(SubscriptionId(contract)),
     customerId |-> contract.customerId,
     customerEmail |-> contract.customerEmail,
     totalOrdersDelivered |->
         IF contract.totalSuccessfulOrders = NULL THEN 0
         ELSE contract.totalSuccessfulOrders]

\* a mutation of DeleteShopRows: the old rows stay
KeepShopRows(rows, shop) == rows

\* prisma.syncedSubscriber.deleteMany({ where: { shop } })
DeleteShopRows(rows, shop) == {s \in rows : s.shop # shop}

\* the data of prisma.syncLog.create
SyncLogRow(shop, totalFetched, totalSynced) ==
    [shop |-> shop, totalFetched |-> totalFetched,
     totalSynced |-> totalSynced, filterMinOrders |-> MinOrders,
     status |-> "success"]

\* a reconciliation starts. The operator's action answers with an error when
\* no API key is stored; the cycle skips such a shop before its step 1
SyncBegin(r) ==
    /\ syncProc[r].pc = "idle"
    /\ \E shop \in DOMAIN upstream, entry \in EntryPoints :
           syncProc' = [syncProc EXCEPT ![r] =
               IF ~appSettings[shop]
               THEN [IdleSync EXCEPT !.pc = "done", !.entry = entry,
                                     !.shop = shop, !.error = "no_key"]
               ELSE [IdleSync EXCEPT !.pc = "fetch", !.entry = entry,
                                     !.shop = shop]]
    /\ UNCHANGED <<now, giftSettings, appSettings, syncedSubscriber,
                   giftEligibility, giftSelection, nextId, emailsSent>>
    /\ UNCHANGED <<upstream, syncLog, fetchProc, cycleProc, cronRunning, applyProc,
                   extraCopies>>
    /\ UNCHANGED cycleVars
    /\ UNCHANGED redeemVars

\* a reconciliation that goes on with what was fetched before the throw
FetchedSoFarKept(p, result) ==
    [p EXCEPT !.pc = "delete",
              !.totalFetched = result.totalFetched,
              !.totalSynced = Len(result.filteredSubscribers),
              !.work = result.filteredSubscribers]

\* the reconciliation after syncSubscribers: a throw skips the rest of the try
\* block; otherwise deleteMany is next
Fetched(p, result) ==
    IF result.thrown
    THEN [p EXCEPT !.pc = "done", !.error = "fetch"]
    ELSE [p EXCEPT !.pc = "delete",
                   !.totalFetched = result.totalFetched,
                   !.totalSynced = Len(result.filteredSubscribers),
                   !.work = result.filteredSubscribers]

\* await service.syncSubscribers(...): a throw is caught by the step's catch,
\* which logs to the console (the operator's returns the message)
SyncFetch(r) ==
    /\ syncProc[r].pc = "fetch"
    /\ syncProc' = [syncProc EXCEPT ![r] =
           Fetched(@, SyncSubscribers(upstream[syncProc[r].shop]))]
    /\ UNCHANGED <<now, giftSettings, appSettings, syncedSubscriber,
                   giftEligibility, giftSelection, nextId, emailsSent>>
    /\ UNCHANGED <<upstream, syncLog, fetchProc, cycleProc, cronRunning, applyProc,
                   extraCopies>>
    /\ UNCHANGED cycleVars
    /\ UNCHANGED redeemVars

\* a table without the unique index: no insert is refused
NoSnapshotViolation(rows, row) == FALSE

\* The unique index on (shop, contractId): an insert whose key is held by a
\* stored row is refused and the create call throws
SnapshotViolation(rows, row) ==
    \E s \in rows : s.shop = row.shop /\ s.contractId = row.contractId

\* the further copies that deleteMany({ where: { shop } }) leaves
DeleteShopCopies(copies, shop) ==
    SelectSeq(copies, LAMBDA s : s.shop # shop)

\* await prisma.syncedSubscriber.deleteMany, or the database rejects it
SyncDelete(r) ==
    /\ syncProc[r].pc = "delete"
    /\ \E ok \in BOOLEAN :
         IF ok
         THEN /\ syncedSubscriber' =
                     DeleteShopRows(syncedSubscriber, syncProc[r].shop)
              /\ extraCopies' = DeleteShopCopies(extraCopies, syncProc[r].shop)
              /\ syncProc' = [syncProc EXCEPT ![r].pc =
                     IF syncProc[r].work = <<>> THEN "log" ELSE "insert"]
         ELSE /\ syncProc' = [syncProc EXCEPT ![r].pc = "done",
                                              ![r].error = "database"]
              /\ UNCHANGED <<syncedSubscriber, extraCopies>>
    /\ UNCHANGED <<now, giftSettings, appSettings, giftEligibility,
                   giftSelection, nextId, emailsSent>>
    /\ UNCHANGED <<upstream, syncLog, fetchProc, cycleProc, cronRunning, applyProc>>
    /\ UNCHANGED cycleVars
    /\ UNCHANGED redeemVars

\* one turn of for (const contract of filteredSubscribers): the row is
\* created, or the database rejects it: because a row of the same key is
\* stored, or for another reason
SyncInsert(r) ==
    /\ syncProc[r].pc = "insert"
    /\ LET row == SnapshotRow(syncProc[r].shop, Head(syncProc[r].work))
       IN  IF SnapshotViolation(syncedSubscriber, row)
           THEN /\ syncProc' = [syncProc EXCEPT ![r].pc = "done",
                                       ![r].error = "unique_constraint"]
                /\ UNCHANGED <<syncedSubscriber, extraCopies>>
           ELSE \E ok \in BOOLEAN :
                  IF ok
                  THEN /\ syncedSubscriber' = syncedSubscriber \cup {row}
                       /\ extraCopies' =
                              IF row \in syncedSubscriber
                              THEN Append(extraCopies, row) ELSE extraCopies
                       /\ syncProc' = [syncProc EXCEPT
                              ![r].work = Tail(@),
                              ![r].pc = IF Tail(syncProc[r].work) = <<>>
                                        THEN "log" ELSE "insert"]
                  ELSE /\ syncProc' = [syncProc EXCEPT ![r].pc = "done",
                                              ![r].error = "database"]
                       /\ UNCHANGED <<syncedSubscriber, extraCopies>>
    /\ UNCHANGED <<now, giftSettings, appSettings, giftEligibility,
                   giftSelection, nextId, emailsSent>>
    /\ UNCHANGED <<upstream, syncLog, fetchProc, cycleProc, cronRunning, applyProc>>
    /\ UNCHANGED cycleVars
    /\ UNCHANGED redeemVars

\* await prisma.syncLog.create({ ... status: "success" }), the last statement
\* of the try block; the catch blocks create no row
SyncRecord(r) ==
    /\ syncProc[r].pc = "log"
    /\ \E ok \in BOOLEAN :
         IF ok
         THEN /\ syncLog' = Append(syncLog,
                     SyncLogRow(syncProc[r].shop, syncProc[r].totalFetched,
                                syncProc[r].totalSynced))
              /\ syncProc' = [syncProc EXCEPT ![r].pc = "done"]
         ELSE /\ syncProc' = [syncProc EXCEPT ![r].pc = "done",
                                              ![r].error = "database"]
              /\ UNCHANGED syncLog
    /\ UNCHANGED <<now, giftSettings, appSettings, syncedSubscriber,
                   giftEligibility, giftSelection, nextId, emailsSent>>
    /\ UNCHANGED <<upstream, fetchProc, cycleProc, cronRunning, applyProc,
                   extraCopies>>
    /\ UNCHANGED cycleVars
    /\ UNCHANGED redeemVars

\* the contracts an upstream may list: each with one of the identifier shapes
\* and a delivered count that is absent, below the minimum or at it
ContractShapes == {"external", "graph", "opaque", "legacy", "bare"}
ContractsOf(n) ==
    {[i \in 1..n |-> Contract(i, shapes[i], orders[i])] :
        shapes \in [1..n -> ContractShapes],
        orders \in [1..n -> {NULL, MinOrders - 1, MinOrders}]}

\* a snapshot row of an earlier reconciliation that the upstream lists no more
StaleRow(shop) == SnapshotRow(shop, Contract(MaxUpstream + 1, "external", MinOrders))

InitSync ==
    /\ now = 0
    /\ giftSettings = [s \in Shops |-> Settings(DefaultMaxGifts, 1)]
    /\ appSettings = [s \in Shops |-> TRUE]
    /\ syncedSubscriber = {StaleRow(s) : s \in Shops}
    /\ giftEligibility = {}
    /\ giftSelection = {}
    /\ nextId = [eligibility |-> 1, selection |-> 1]
    /\ emailsSent = [i \in {} |-> NoEmails]
    /\ addCalls = [r \in SelectRequests |-> 0]
    /\ selProc = [r \in SelectRequests |-> IdleSel]
    /\ resetProc = [o \in ResetRequests |-> IdleReset]
    /\ verifyProc = [v \in VerifyRequests |-> IdleVerify]
    /\ evalProc = [p \in EvalRequests |-> IdleEval]
    /\ dispProc = [d \in DispatchRequests |-> IdleDispatch]
    /\ hookProc = [h \in HookRequests |-> IdleHook]
    /\ \E n \in 0..MaxUpstream :
         \E contracts \in ContractsOf(n), failAt \in {NULL, 0} :
            upstream = [s \in Shops |->
                [contracts |-> contracts, last |-> "honest", failAt |-> failAt]]
    /\ syncLog = <<>>
    /\ fetchProc = [f \in FetchRequests |-> IdleFetch]
    /\ syncProc = [r \in SyncRequests |-> IdleSync]
    /\ cycleProc = [y \in CycleRequests |-> IdleCycle]
    /\ cronRunning = FALSE
    /\ applyProc = [a \in ApplyRequests |-> IdleApply]
    /\ extraCopies = <<>>

SyncSteps(r) ==
    SyncFetch(r) \/ SyncDelete(r) \/ SyncInsert(r) \/ SyncRecord(r)

\* two reconciliations in sequence: the second starts when the first has ended
NextSync ==
    \/ SyncBegin("s1")
    \/ (syncProc["s1"].pc = "done" /\ SyncBegin("s2"))
    \/ \E r \in SyncRequests : SyncSteps(r)

SpecSync == InitSync /\ [][NextSync]_vars

\* two reconciliations of one shop under way at once: the operator's sync
\* action and the cycle's step 1 share no lock
OverlapEntry(r) == IF r = "s1" THEN "operator" ELSE "cron"

NextOverlap ==
    \/ \E r \in SyncRequests :
           SyncBegin(r) /\ syncProc'[r].entry = OverlapEntry(r)
    \/ \E r \in SyncRequests : SyncSteps(r)

SpecOverlap == InitSync /\ [][NextOverlap]_vars

\* A shop whose snapshot is still empty: order-paid events, a reconciliation
\* and an evaluation
InitFallback ==
    /\ now = 0
    /\ giftSettings = [s \in Shops |-> Settings(DefaultMaxGifts, 1)]
    /\ appSettings = [s \in Shops |-> TRUE]
    /\ syncedSubscriber = {}
    /\ giftEligibility = {}
    /\ giftSelection = {}
    /\ nextId = [eligibility |-> 1, selection |-> 1]
    /\ emailsSent = [i \in {} |-> NoEmails]
    /\ addCalls = [r \in SelectRequests |-> 0]
    /\ selProc = [r \in SelectRequests |-> IdleSel]
    /\ resetProc = [o \in ResetRequests |-> IdleReset]
    /\ verifyProc = [v \in VerifyRequests |-> IdleVerify]
    /\ evalProc = [p \in EvalRequests |-> IdleEval]
    /\ dispProc = [d \in DispatchRequests |-> IdleDispatch]
    /\ hookProc = [h \in HookRequests |-> IdleHook]
    /\ \E n \in 1..MaxUpstream :
         \E contracts \in ContractsOf(n) :
            upstream = [s \in Shops |->
                [contracts |-> contracts, last |-> "honest", failAt |-> NULL]]
    /\ syncLog = <<>>
    /\ fetchProc = [f \in FetchRequests |-> IdleFetch]
    /\ syncProc = [r \in SyncRequests |-> IdleSync]
    /\ cycleProc = [y \in CycleRequests |-> IdleCycle]
    /\ cronRunning = FALSE
    /\ applyProc = [a \in ApplyRequests |-> IdleApply]
    /\ extraCopies = <<>>

NextFallback ==
    \/ \E h \in HookRequests : HookBegin(h) \/ HookFind(h) \/ HookCreate(h)
    \/ SyncBegin("s1") /\ syncProc'["s1"].entry = OverlapEntry("s1")
    \/ SyncSteps("s1")
    \/ \E p \in {"e1"} : EvalBegin(p) \/ EvalFind(p) \/ EvalCreate(p)

SpecFallback == InitFallback /\ [][NextFallback]_vars

----------------------------------------------------------------------------
\* The cycle over the shops: runCronJob and the trigger endpoint's action

CycleShops == {"shop1", "shop2"}
CycleEntries == {"cron", "trigger"}

\* the cycle that starts first
FirstCycle == "y1"

\* the reconciliation, evaluation and dispatch a cycle runs as its steps
CycleSync == "s1"
CycleEval == "e1"
CycleDisp == "d1"

\* if (global.__cronRunning): the flag as a timer-started cycle finds it
CycleRunning == cronRunning

\* a mutation of Finally: the flag is left as it is
FinallyOmitted(flag) == flag

\* finally { global.__cronRunning = false; }
Finally(flag) == FALSE

\* the flag after a step that leaves the cycle as c: runCronJob's finally
\* block runs when the function ends; the trigger endpoint has no flag
FlagAfter(c) ==
    IF c.entry = "cron" /\ c.pc = "done" THEN Finally(cronRunning)
    ELSE cronRunning

\* the loop goes on with the next element of giftSettingsList
NextShop(c) ==
    [c EXCEPT !.list = Tail(c.list),
              !.pc = IF Tail(c.list) = <<>> THEN "done" ELSE "shop"]

\* a mutation of ShopFailed: the error ends the cycle
CycleAborted(c, step) ==
    [c EXCEPT !.pc = "done", !.errors = Append(c.errors, <<c.shop, step>>)]

\* the shop's catch block: the error is logged and the loop goes on
ShopFailed(c, step) ==
    NextShop([c EXCEPT !.errors = Append(c.errors, <<c.shop, step>>)])

\* a mutation of StepEnded: the step's error is swallowed
StepErrorDropped(c, step, error) == c

\* a step has ended, in its try block or in its catch block
StepEnded(c, step, error) ==
    [c EXCEPT !.errors = IF error = "none" THEN c.errors
                         ELSE Append(c.errors, <<c.shop, step>>)]

\* a cycle starts: the timer's is skipped while the flag is set; findMany
\* lists the enabled shops, or throws into the outer catch
CycleBegin(y) ==
    /\ cycleProc[y].pc = "idle"
    /\ \E entry \in CycleEntries, ok \in BOOLEAN :
       \E list \in Orderings({s \in DOMAIN giftSettings : giftSettings[s].enabled}) :
         LET started ==
                 IF ~ok
                     THEN [IdleCycle EXCEPT !.pc = "done", !.entry = entry,
                                            !.errors = <<<<"", "fatal">>>>]
                 ELSE [IdleCycle EXCEPT !.pc = IF list = <<>> THEN "done" ELSE "shop",
                                        !.entry = entry, !.list = list]
         IN  IF entry = "cron" /\ CycleRunning
                 THEN /\ cycleProc' = [cycleProc EXCEPT ![y] =
                             [IdleCycle EXCEPT !.pc = "done", !.entry = entry,
                                               !.errors = <<<<"", "skipped">>>>]]
                      /\ UNCHANGED cronRunning
                 ELSE /\ cycleProc' = [cycleProc EXCEPT ![y] = started]
                      /\ cronRunning' =
                             IF entry # "cron" THEN cronRunning
                             ELSE IF started.pc = "done" THEN Finally(TRUE)
                             ELSE TRUE
    /\ UNCHANGED <<now, giftSettings, appSettings, syncedSubscriber,
                   giftEligibility, giftSelection, nextId, emailsSent>>
    /\ UNCHANGED <<upstream, syncLog, fetchProc, syncProc, applyProc,
                   extraCopies>>
    /\ UNCHANGED cycleVars
    /\ UNCHANGED redeemVars

\* one turn of for (const giftSettings of giftSettingsList): appSettings is
\* read (a throw goes to the shop's catch), a shop without API key is skipped
\* with continue, otherwise step 1 starts
CycleShop(y) ==
    /\ cycleProc[y].pc = "shop"
    /\ \E ok \in BOOLEAN :
         LET shop == Head(cycleProc[y].list)
             c == [cycleProc[y] EXCEPT !.shop = shop,
                                       !.visited = Append(@, shop)]
         IN  IF ~ok
                 THEN /\ cycleProc' = [cycleProc EXCEPT ![y] =
                             ShopFailed(c, "settings")]
                      /\ UNCHANGED syncProc
             ELSE IF ~appSettings[shop]
                 THEN /\ cycleProc' = [cycleProc EXCEPT ![y] = NextShop(c)]
                      /\ UNCHANGED syncProc
             ELSE /\ cycleProc' = [cycleProc EXCEPT ![y] =
                         [c EXCEPT !.pc = "sync",
                                   !.steps = Append(@, <<shop, "sync">>)]]
                  /\ syncProc' = [syncProc EXCEPT ![CycleSync] =
                         [IdleSync EXCEPT !.pc = "fetch", !.entry = c.entry,
                                          !.shop = shop]]
    /\ cronRunning' = FlagAfter(cycleProc'[y])
    /\ UNCHANGED <<now, giftSettings, appSettings, syncedSubscriber,
                   giftEligibility, giftSelection, nextId, emailsSent>>
    /\ UNCHANGED <<upstream, syncLog, fetchProc, applyProc,
                   extraCopies>>
    /\ UNCHANGED cycleVars
    /\ UNCHANGED redeemVars

\* step 1 has ended; step 2 starts: the triggers are parsed and the snapshot
\* is read, or findMany throws into the step's catch
CycleEvaluate(y) ==
    /\ cycleProc[y].pc = "sync"
    /\ syncProc[CycleSync].pc = "done"
    /\ \E ok \in BOOLEAN :
       \E subs \in Orderings({s \in syncedSubscriber : s.shop = cycleProc[y].shop}) :
         LET c == StepEnded(cycleProc[y], "sync", syncProc[CycleSync].error)
             work == WorkList(c.entry, TriggerNumbers(giftSettings[c.shop]), subs)
         IN  /\ cycleProc' = [cycleProc EXCEPT ![y] =
                    [c EXCEPT !.pc = "evaluate",
                              !.steps = Append(@, <<c.shop, "evaluate">>)]]
             /\ evalProc' = [evalProc EXCEPT ![CycleEval] =
                    IF ok THEN EvalStarted(c.entry, work)
                    ELSE [IdleEval EXCEPT !.pc = "done", !.entry = c.entry,
                                          !.error = "database"]]
    /\ syncProc' = [syncProc EXCEPT ![CycleSync] = IdleSync]
    /\ UNCHANGED <<now, giftSettings, appSettings, syncedSubscriber,
                   giftEligibility, giftSelection, nextId, emailsSent>>
    /\ UNCHANGED <<upstream, syncLog, fetchProc, cronRunning, applyProc,
                   extraCopies>>
    /\ UNCHANGED <<dispProc, hookProc>>
    /\ UNCHANGED redeemVars

\* step 2 has ended; step 3 starts: the rows due for their email are selected,
\* or findMany throws into the step's catch
CycleDispatch(y) ==
    /\ cycleProc[y].pc = "evaluate"
    /\ evalProc[CycleEval].pc = "done"
    /\ \E ok \in BOOLEAN :
         LET c == StepEnded(cycleProc[y], "evaluate", evalProc[CycleEval].error)
             delay == OrDefault(giftSettings[c.shop].emailDelayDays, 0)
             pending == {e \in giftEligibility :
                            Dispatchable(e, c.shop, delay, now)}
             started == [c EXCEPT !.pc = "dispatch",
                                  !.steps = Append(@, <<c.shop, "dispatch">>)]
         IN  IF ok
                 THEN /\ cycleProc' = [cycleProc EXCEPT ![y] = started]
                      /\ dispProc' = [dispProc EXCEPT ![CycleDisp] =
                             DispStarted(pending)]
                 ELSE /\ cycleProc' = [cycleProc EXCEPT ![y] =
                             StepEnded(started, "dispatch", "database")]
                      /\ dispProc' = [dispProc EXCEPT ![CycleDisp] =
                             [IdleDispatch EXCEPT !.pc = "done"]]
    /\ evalProc' = [evalProc EXCEPT ![CycleEval] = IdleEval]
    /\ UNCHANGED <<now, giftSettings, appSettings, syncedSubscriber,
                   giftEligibility, giftSelection, nextId, emailsSent>>
    /\ UNCHANGED <<upstream, syncLog, fetchProc, syncProc, cronRunning, applyProc,
                   extraCopies>>
    /\ UNCHANGED hookProc
    /\ UNCHANGED redeemVars

\* step 3 has ended: the loop goes on with the next shop
CycleNext(y) ==
    /\ cycleProc[y].pc = "dispatch"
    /\ dispProc[CycleDisp].pc = "done"
    /\ cycleProc' = [cycleProc EXCEPT ![y] = NextShop(@)]
    /\ cronRunning' = FlagAfter(cycleProc'[y])
    /\ dispProc' = [dispProc EXCEPT ![CycleDisp] = IdleDispatch]
    /\ UNCHANGED <<now, giftSettings, appSettings, syncedSubscriber,
                   giftEligibility, giftSelection, nextId, emailsSent>>
    /\ UNCHANGED <<upstream, syncLog, fetchProc, syncProc, applyProc,
                   extraCopies>>
    /\ UNCHANGED <<evalProc, hookProc>>
    /\ UNCHANGED redeemVars

\* two shops, each enabled or not and with or without API key; each upstream
\* lists one contract at the minimum, and its listing request is answered or
\* fails; emails are due at once
InitCycle ==
    /\ now = 0
    /\ \E enabled \in [CycleShops -> BOOLEAN] :
         giftSettings = [s \in CycleShops |->
             [Settings(DefaultMaxGifts, 0) EXCEPT !.enabled = enabled[s]]]
    /\ appSettings \in [CycleShops -> BOOLEAN]
    /\ syncedSubscriber = {}
    /\ giftEligibility = {}
    /\ giftSelection = {}
    /\ nextId = [eligibility |-> 1, selection |-> 1]
    /\ emailsSent = [i \in {} |-> NoEmails]
    /\ addCalls = [r \in SelectRequests |-> 0]
    /\ selProc = [r \in SelectRequests |-> IdleSel]
    /\ resetProc = [o \in ResetRequests |-> IdleReset]
    /\ verifyProc = [v \in VerifyRequests |-> IdleVerify]
    /\ evalProc = [p \in EvalRequests |-> IdleEval]
    /\ dispProc = [d \in DispatchRequests |-> IdleDispatch]
    /\ hookProc = [h \in HookRequests |-> IdleHook]
    /\ \E failAt \in [CycleShops -> {NULL, 0}] :
         upstream = [s \in CycleShops |->
             [contracts |-> <<Contract(1, "external", MinOrders)>>,
              last |-> "honest", failAt |-> failAt[s]]]
    /\ syncLog = <<>>
    /\ fetchProc = [f \in FetchRequests |-> IdleFetch]
    /\ syncProc = [r \in SyncRequests |-> IdleSync]
    /\ cycleProc = [y \in CycleRequests |-> IdleCycle]
    /\ cronRunning = FALSE
    /\ applyProc = [a \in ApplyRequests |-> IdleApply]
    /\ extraCopies = <<>>

NextCycle ==
    \/ CycleBegin(FirstCycle)
    \/ \E y \in CycleRequests :
         \/ CycleShop(y)
         \/ CycleEvaluate(y)
         \/ CycleDispatch(y)
         \/ CycleNext(y)
    \/ SyncSteps(CycleSync)
    \/ EvalFind(CycleEval)
    \/ EvalCreate(CycleEval)
    \/ DispClaim(CycleDisp)
    \/ DispSend(CycleDisp)
    \/ DispFail(CycleDisp)

SpecCycle == InitCycle /\ [][NextCycle]_vars

\* Two cycles: the second is started when the first has ended, or by the timer
\* while the first, started by the timer too, is still running
NextTimer ==
    \/ NextCycle
    \/ \E y \in CycleRequests \ {FirstCycle} :
         /\ cycleProc[FirstCycle].pc = "done" \/ CycleRunning
         /\ CycleBegin(y)
         /\ cycleProc[FirstCycle].pc # "done" => cycleProc'[y].entry = "cron"

\* the second shop is disabled: each cycle goes through one shop at most
InitTimer ==
    /\ InitCycle
    /\ ~giftSettings["shop2"].enabled
    /\ appSettings["shop2"]
    /\ upstream["shop2"].failAt = NULL

SpecTimer == InitTimer /\ [][NextTimer]_vars

----------------------------------------------------------------------------
\* APP_UNINSTALLED webhook: the cleanup of a shop's rows

\* await prisma.appSettings.deleteMany({ where: { shop } })
UninstallSettings(shop) ==
    /\ appSettings[shop]
    /\ appSettings' = [appSettings EXCEPT ![shop] = FALSE]
    /\ UNCHANGED <<now, giftSettings, syncedSubscriber, giftEligibility,
                   giftSelection, nextId, emailsSent>>
    /\ UNCHANGED cycleVars
    /\ UNCHANGED redeemVars
    /\ UNCHANGED syncVars

\* await prisma.syncedSubscriber.deleteMany({ where: { shop } })
UninstallSnapshot(shop) ==
    /\ \E s \in syncedSubscriber : s.shop = shop
    /\ syncedSubscriber' = DeleteShopRows(syncedSubscriber, shop)
    /\ extraCopies' = DeleteShopCopies(extraCopies, shop)
    /\ UNCHANGED <<now, giftSettings, appSettings, giftEligibility,
                   giftSelection, nextId, emailsSent>>
    /\ UNCHANGED cycleVars
    /\ UNCHANGED redeemVars
    /\ UNCHANGED <<upstream, syncLog, fetchProc, syncProc, cycleProc,
                   cronRunning, applyProc>>

\* await prisma.syncLog.deleteMany({ where: { shop } })
UninstallLog(shop) ==
    /\ \E i \in DOMAIN syncLog : syncLog[i].shop = shop
    /\ LET OtherShop(row) == row.shop # shop
       IN  syncLog' = SelectSeq(syncLog, OtherShop)
    /\ UNCHANGED <<now, giftSettings, appSettings, syncedSubscriber,
                   giftEligibility, giftSelection, nextId, emailsSent>>
    /\ UNCHANGED <<upstream, fetchProc, syncProc, cycleProc, cronRunning, applyProc,
                   extraCopies>>
    /\ UNCHANGED cycleVars
    /\ UNCHANGED redeemVars

\* the first cycle has ended and no other has begun
BetweenCycles ==
    /\ cycleProc[FirstCycle].pc = "done"
    /\ \A y \in CycleRequests \ {FirstCycle} : cycleProc[y].pc = "idle"

\* both cycles have ended
CyclesOver == \A y \in CycleRequests : cycleProc[y].pc = "done"

\* the submission has returned
SubmissionOver == selProc[FirstSelect].pc = "done"

\* Everything that writes the database, in sequence: a cycle, the cleanup
\* after an uninstall, a second cycle, a submission, the operator's reset
NextKeep ==
    \/ NextTimer
    \/ BetweenCycles /\ \E shop \in CycleShops : UninstallSettings(shop)
    \/ BetweenCycles /\ \E shop \in CycleShops : UninstallSnapshot(shop)
    \/ BetweenCycles /\ \E shop \in CycleShops : UninstallLog(shop)
    \/ CyclesOver /\ SelFind(FirstSelect)
    \/ SelSteps(FirstSelect)
    \/ CyclesOver /\ SubmissionOver /\ \E o \in ResetRequests : ResetDelete(o)
    \/ \E o \in ResetRequests : ResetUpdate(o)

SpecKeep == InitTimer /\ [][NextKeep]_vars

----------------------------------------------------------------------------
\* Applying one gift line: AppstleService.addGiftProduct

\* while (hasMore && page < 10)
LookupCeiling == 10

\* a value JavaScript takes as true in a condition: an identifier that is
\* present and not 0
Truthy(x) == x # NULL /\ x # 0

\* a record of the contract-details listing (type ContractData); an absent
\* identifier is NULL, an absent status or date the empty string
Detail(id, external, billing, nextBilling, upcoming, status, date) ==
    [id |-> id, subscriptionContractId |-> external,
     billingAttemptId |-> billing, nextBillingAttemptId |-> nextBilling,
     upcomingBillingAttemptId |-> upcoming, status |-> status,
     nextBillingDate |-> date]

\* hasMore = response.last === false || contracts.length === pageSize
LookupHasMore(last, contracts, size) ==
    last = "false" \/ Len(contracts) = size

\* c => String(c.id) === contractId || String(c.subscriptionContractId) === contractId
Matches(c, contractId) ==
    c.id = contractId \/ c.subscriptionContractId = contractId

\* contracts.find(...): the first match of the page, or NULL
FindContract(contracts, contractId) ==
    LET hits == {i \in DOMAIN contracts : Matches(contracts[i], contractId)}
    IN  IF hits = {} THEN NULL
        ELSE CHOOSE i \in hits : \A j \in hits : i <= j

\* the object returned for the contract found
ContractInfo(found) ==
    [billingAttemptId |->
         IF Truthy(found.billingAttemptId) THEN found.billingAttemptId
         ELSE IF Truthy(found.nextBillingAttemptId)
             THEN found.nextBillingAttemptId
         ELSE IF Truthy(found.upcomingBillingAttemptId)
             THEN found.upcomingBillingAttemptId
         ELSE NULL,
     subscriptionContractId |->
         IF Truthy(found.subscriptionContractId)
             THEN found.subscriptionContractId ELSE NULL,
     appstleInternalId |-> IF Truthy(found.id) THEN found.id ELSE NULL,
     status |-> found.status,
     nextBillingDate |-> found.nextBillingDate]

\* contractInfo.status.toLowerCase() !== 'active'
IsActive(status) == status \in {"ACTIVE", "active", "Active"}

\* the placeholder billing attempt: ['1']
PlaceholderAttempt == 1

\* the nested loops over contractIdsToTry, billingAttemptIds and
\* variantHandlesToTry, as the list of the requests in the order they are made
Candidates(info, handle) ==
    LET actual == info.appstleInternalId
        contractIdsToTry ==
            IF info.subscriptionContractId # NULL
               /\ info.subscriptionContractId # actual
            THEN <<actual, info.subscriptionContractId>> ELSE <<actual>>
        attempt == IF info.billingAttemptId # NULL THEN info.billingAttemptId
                   ELSE PlaceholderAttempt
        variantHandlesToTry == <<handle, "default-title">>
    IN  [i \in 1..(2 * Len(contractIdsToTry)) |->
            [contractId |-> contractIdsToTry[(i + 1) \div 2],
             billingAttemptId |-> attempt,
             variantHandle |-> variantHandlesToTry[2 - (i % 2)]]]

\* the code between the lookup's return and the first PUT request: not found
\* and not active return; no next order only pushes a message to errors
Validated(r, info) ==
    IF info.appstleInternalId = NULL
        THEN [r EXCEPT !.pc = "done", !.info = info, !.result = "not_found"]
    ELSE IF info.status # "" /\ ~IsActive(info.status)
        THEN [r EXCEPT !.pc = "done", !.info = info, !.result = "not_active"]
    ELSE [r EXCEPT !.pc = "put", !.info = info,
                   !.errors = IF info.nextBillingDate = ""
                                 /\ info.billingAttemptId = NULL
                              THEN <<"no_next_order">> ELSE <<>>,
                   !.candidates = Candidates(info, r.handle)]

\* the identifiers of the contract the call is about, and one no contract has
TargetId == 500001
TargetExternal == 700001
UnknownId == 900001
\* a billing attempt of the target
TargetBilling == 600001

\* addGiftProduct(contractId, variantId, quantity, variantHandle) is called
ApplyBegin(a) ==
    /\ applyProc[a].pc = "idle"
    /\ \E shop \in DOMAIN upstream, handle \in {"gift", "default-title"} :
       \E contractId \in {TargetId, TargetExternal, UnknownId} :
           /\ applyProc' = [applyProc EXCEPT ![a] =
                  [IdleApply EXCEPT !.pc = "lookup", !.shop = shop,
                                    !.contractId = contractId,
                                    !.handle = handle]]
    /\ UNCHANGED <<now, giftSettings, appSettings, syncedSubscriber,
                   giftEligibility, giftSelection, nextId, emailsSent>>
    /\ UNCHANGED <<upstream, syncLog, fetchProc, syncProc, cycleProc, cronRunning,
                   extraCopies>>
    /\ UNCHANGED cycleVars
    /\ UNCHANGED redeemVars

\* one turn of the lookup's loop: the page is requested; a request that
\* throws ends the loop (hasMore = false); the contract found ends the lookup;
\* when the loop is left without a match the lookup returns nulls
ApplyLookup(a) ==
    /\ applyProc[a].pc = "lookup"
    /\ LET r == applyProc[a]
           up == upstream[r.shop]
           contracts == PageContent(up, r.page, PageSize)
           hit == FindContract(contracts, r.contractId)
           hasMore == LookupHasMore(PageLast(up, r.page, PageSize),
                                    contracts, PageSize)
       IN  applyProc' = [applyProc EXCEPT ![a] =
               IF PageThrows(up, r.page)
                   THEN Validated([r EXCEPT !.hasMore = FALSE], NoInfo)
               ELSE IF hit # NULL
                   THEN Validated([r EXCEPT !.hasMore = hasMore],
                                  ContractInfo(contracts[hit]))
               ELSE IF hasMore /\ r.page + 1 < LookupCeiling
                   THEN [r EXCEPT !.hasMore = hasMore, !.page = r.page + 1]
               ELSE Validated([r EXCEPT !.hasMore = hasMore,
                                        !.page = r.page + 1], NoInfo)]
    /\ UNCHANGED <<now, giftSettings, appSettings, syncedSubscriber,
                   giftEligibility, giftSelection, nextId, emailsSent>>
    /\ UNCHANGED <<upstream, syncLog, fetchProc, syncProc, cycleProc, cronRunning,
                   extraCopies>>
    /\ UNCHANGED cycleVars
    /\ UNCHANGED redeemVars

\* the answers to the PUT that addGiftProduct tells apart: a non-empty array,
\* an empty array, an object with fields and no error, an object that is empty
\* or carries an error, and a request that throws, with or without the text
\* "No value present"
PutResponses ==
    {"array", "empty_array", "object", "error_object", "thrown",
     "thrown_no_value"}

\* a mutation of PutSucceeds: an empty array is not a success
PutSucceedsNonEmpty(response) == response \in {"array", "object"}

\* the three tests of the response that return { success: true }
PutSucceeds(response) == response \in {"array", "empty_array", "object"}

\* the return after the loops
ApplyFailed(errors) ==
    IF "thrown_no_value" \in Range(errors) THEN "no_scheduled_order"
    ELSE "failed"

\* one PUT request of the loops and what follows its answer
ApplyPut(a) ==
    /\ applyProc[a].pc = "put"
    /\ \E response \in PutResponses :
         LET r == applyProc[a]
             sent == [r EXCEPT !.writes =
                         Append(@, [candidate |-> Head(r.candidates),
                                    response |-> response]),
                               !.candidates = Tail(@)]
             errors == IF response \in {"thrown", "thrown_no_value"}
                       THEN Append(r.errors, response) ELSE r.errors
         IN  applyProc' = [applyProc EXCEPT ![a] =
                 IF PutSucceeds(response)
                     THEN [sent EXCEPT !.pc = "done", !.result = "success"]
                 ELSE IF sent.candidates = <<>>
                     THEN [sent EXCEPT !.pc = "done", !.errors = errors,
                                       !.result = ApplyFailed(errors)]
                 ELSE [sent EXCEPT !.errors = errors]]
    /\ UNCHANGED <<now, giftSettings, appSettings, syncedSubscriber,
                   giftEligibility, giftSelection, nextId, emailsSent>>
    /\ UNCHANGED <<upstream, syncLog, fetchProc, syncProc, cycleProc, cronRunning,
                   extraCopies>>
    /\ UNCHANGED cycleVars
    /\ UNCHANGED redeemVars

\* the other contracts of the listing
Filler(i) == Detail(i, 100000 + i, 300000 + i, NULL, NULL, "ACTIVE", "date")

\* a listing of n contracts with the target at position pos
ListingWith(target, n, pos) ==
    [i \in 1..n |-> IF i = pos THEN target ELSE Filler(i)]

\* the state all calls of addGiftProduct start from
InitApplyWith(contracts, failAt) ==
    /\ now = 0
    /\ giftSettings = [s \in Shops |-> Settings(DefaultMaxGifts, 0)]
    /\ appSettings = [s \in Shops |-> TRUE]
    /\ syncedSubscriber = {}
    /\ giftEligibility = {}
    /\ giftSelection = {}
    /\ nextId = [eligibility |-> 1, selection |-> 1]
    /\ emailsSent = [i \in {} |-> NoEmails]
    /\ addCalls = [r \in SelectRequests |-> 0]
    /\ selProc = [r \in SelectRequests |-> IdleSel]
    /\ resetProc = [o \in ResetRequests |-> IdleReset]
    /\ verifyProc = [v \in VerifyRequests |-> IdleVerify]
    /\ evalProc = [p \in EvalRequests |-> IdleEval]
    /\ dispProc = [d \in DispatchRequests |-> IdleDispatch]
    /\ hookProc = [h \in HookRequests |-> IdleHook]
    /\ upstream = [s \in Shops |->
           [contracts |-> contracts, last |-> "honest", failAt |-> failAt]]
    /\ syncLog = <<>>
    /\ fetchProc = [f \in FetchRequests |-> IdleFetch]
    /\ syncProc = [r \in SyncRequests |-> IdleSync]
    /\ cycleProc = [y \in CycleRequests |-> IdleCycle]
    /\ cronRunning = FALSE
    /\ applyProc = [a \in ApplyRequests |-> IdleApply]
    /\ extraCopies = <<>>

\* the contract is the only one listed; its identifiers, billing attempts,
\* status and next billing date vary
InitApply ==
    \E id \in {TargetId}, external \in {NULL, TargetExternal},
       billing \in {NULL, TargetBilling}, upcoming \in {NULL, TargetBilling + 1},
       status \in {"", "ACTIVE", "active", "PAUSED"}, date \in {"", "date"} :
        InitApplyWith(<<Detail(id, external, billing, NULL, upcoming,
                               status, date)>>, NULL)

\* the contract is active and scheduled; the listing has up to MaxPages full
\* pages and one contract more, the contract is its first or its last entry,
\* it has an internal id or not, and a page request may fail
InitLookup ==
    \E id \in {NULL, TargetId}, n \in ListingLengths \ {0}, failAt \in {NULL} \cup (0..MaxPages) :
    \E pos \in {1, n} :
        InitApplyWith(ListingWith(Detail(id, TargetExternal, TargetBilling, NULL,
                                         NULL, "ACTIVE", "date"), n, pos),
                      failAt)

NextApply == \E a \in ApplyRequests : ApplyBegin(a) \/ ApplyLookup(a) \/ ApplyPut(a)

SpecApply == InitApply /\ [][NextApply]_vars

SpecLookup == InitLookup /\ [][NextApply]_vars

----------------------------------------------------------------------------
\* Properties of the evaluator, the dispatch and the webhook

\* C1: no two GiftEligibility rows share (shop, contract identifier, order
\* number), in every state reachable by repeated and interleaved runs of the
\* evaluator's entry points and of the order-paid webhook.
C1_OneRowPerMilestone ==
    \A e, f \in giftEligibility :
        (/\ e.shop = f.shop
         /\ e.subscriptionContractId = f.subscriptionContractId
         /\ e.orderNumber = f.orderNumber) => e = f

\* C1 witness: a run was refused an insert after another run had created the
\* row of the same milestone between its lookup and its insert.
C1_Witness ==
    \E p \in EvalRequests :
        /\ evalProc[p].pc = "done"
        /\ evalProc[p].error = "unique_constraint"
        /\ giftEligibility # {}

\* the milestones the snapshot has reached: every row and every configured
\* number t with deliveredOrders >= t
ReachedMilestones ==
    {<<s.shop, s.contractId, giftSettings[s.shop].triggerOrderNumbers[i]>> :
        <<s, i>> \in {<<s, i>> \in syncedSubscriber \X (1..Len(PassTriggerText)) :
            /\ i \in DOMAIN giftSettings[s.shop].triggerOrderNumbers
            /\ giftSettings[s.shop].triggerOrderNumbers[i] # NULL
            /\ s.totalOrdersDelivered >= giftSettings[s.shop].triggerOrderNumbers[i]}}

\* the milestones of a set of eligibility rows
MilestonesOf(rows) == {<<e.shop, e.subscriptionContractId, e.orderNumber>> : e \in rows}

\* the rows issued on an earlier day, and the rows issued since
IssuedEarlier == {e \in giftEligibility : e.createdAt = 0}
IssuedNow == {e \in giftEligibility : e.createdAt > 0}

\* request p has completed a pass from this entry point without error
PassCompleted(p, entry) ==
    /\ evalProc[p].pc = "done"
    /\ evalProc[p].entry = entry
    /\ evalProc[p].error = "none"

\* C11: after an evaluation pass of the scheduled cycle that completed
\* without error, an eligibility exists for every snapshot row and every
\* configured threshold t with deliveredOrders >= t, and the pass created
\* exactly one row for each of those milestones that had none before.
C11_PassCreatesMissing ==
    \A p \in PassRequests :
        PassCompleted(p, "cron") =>
            /\ ReachedMilestones \subseteq MilestonesOf(giftEligibility)
            /\ MilestonesOf(IssuedNow) = ReachedMilestones \ MilestonesOf(IssuedEarlier)
            /\ Cardinality(IssuedNow) = Cardinality(MilestonesOf(IssuedNow))

\* C11 witness: a subscriber at the highest count, nothing issued before: the
\* pass created a row for each of the two thresholds reached and none for
\* the third
C11_Witness ==
    \E p \in PassRequests, s \in syncedSubscriber :
        /\ PassCompleted(p, "cron")
        /\ s.totalOrdersDelivered = MaxOrders
        /\ IssuedEarlier = {}
        /\ {e.orderNumber : e \in {x \in IssuedNow : x.subscriptionContractId = s.contractId}}
               = {MinOrders, MaxOrders}

\* C12: started from the same snapshot, settings and eligibilities, the
\* evaluation step of the HTTP trigger endpoint creates the same set of
\* eligibilities as the evaluation step of the timer's cycle, that is a row
\* for every reached milestone that had none.
C12_TriggerCreatesSameAsTimer ==
    \A p \in PassRequests :
        PassCompleted(p, "trigger") =>
            MilestonesOf(IssuedNow) = ReachedMilestones \ MilestonesOf(IssuedEarlier)

\* C13: at no time are two scheduler cycles in progress, whether started by
\* the timer or by the HTTP trigger endpoint.
C13_OneCycleAtATime ==
    \A p, q \in EvalRequests :
        (/\ p # q
         /\ evalProc[p].entry \in {"cron", "trigger"}
         /\ evalProc[q].entry \in {"cron", "trigger"}
         /\ evalProc[p].pc \in {"find", "create"})
            => evalProc[q].pc \notin {"find", "create"}

\* C2: no eligibility is emailed twice by dispatch, so two interleaved
\* dispatch invocations over N matching eligibilities send N emails in total.
C2_DispatchSendsOnce ==
    \A id \in DOMAIN emailsSent : emailsSent[id].dispatch <= 1

\* C4: an eligibility created by the order-paid webhook with emailDelayDays = 0
\* is emailed at most once in total, by the webhook or by a dispatch run.
C4_WebhookRowEmailedOnce ==
    \A h \in HookRequests :
        hookProc[h].elig # 0 =>
            EmailsOf(hookProc[h].elig).webhook + EmailsOf(hookProc[h].elig).dispatch <= 1


\* the pages a call has pushed: the listing's first page * PageSize contracts
FetchedSoFar(r) ==
    SubSeq(upstream[r.shop].contracts, 1,
           Min(r.page * PageSize, Len(upstream[r.shop].contracts)))

FetchEnded(f) == fetchProc[f].pc \in {"returned", "thrown"}

\* C19: fetching all contracts terminates for every upstream, also one that
\* reports more pages forever: a started call returns or throws, it never
\* requests a page beyond the ceiling, it returns only when hasMore is false
\* or the ceiling is passed, and it returns the contracts of every page fetched
C19_FetchTerminates ==
    /\ \A f \in FetchRequests : (fetchProc[f].pc = "loop") ~> FetchEnded(f)
    /\ [](\A f \in FetchRequests :
            /\ fetchProc[f].page <= PageCeiling + 1
            /\ fetchProc[f].pc = "returned" =>
                 /\ ~fetchProc[f].hasMore \/ fetchProc[f].page > PageCeiling
                 /\ fetchProc[f].allContracts = FetchedSoFar(fetchProc[f]))

\* a call against an upstream that always reports more pages has returned at
\* the ceiling, with the whole listing of more than one page
C19_Witness ==
    \E f \in FetchRequests :
        /\ fetchProc[f].pc = "returned"
        /\ fetchProc[f].hasMore
        /\ fetchProc[f].page = PageCeiling + 1
        /\ Len(fetchProc[f].allContracts) > PageSize


\* the enabled shops, which findMany({ where: { enabled: true } }) lists
EnabledShops == {s \in DOMAIN giftSettings : giftSettings[s].enabled}

\* how often x occurs in a sequence
Occurrences(sq, x) == Cardinality({i \in DOMAIN sq : sq[i] = x})

\* the cycle has gone through its list: it was neither skipped nor did the
\* listing of the shops itself fail
WentThrough(c) ==
    /\ c.pc = "done"
    /\ <<"", "skipped">> \notin Range(c.errors)
    /\ <<"", "fatal">> \notin Range(c.errors)

\* C14: in a cycle no shop is visited twice, and when the cycle has ended
\* every enabled shop was visited exactly once, whatever failed in the shops
\* before it; a visited shop whose API key was read had each of its three
\* steps started once
C14_EveryShopVisitedOnce ==
    \A y \in CycleRequests :
        LET c == cycleProc[y]
        IN  /\ \A s \in DOMAIN giftSettings : Occurrences(c.visited, s) <= 1
            /\ WentThrough(c) =>
                 /\ \A s \in EnabledShops : Occurrences(c.visited, s) = 1
                 /\ Range(c.visited) \subseteq EnabledShops
                 /\ \A s \in EnabledShops :
                      appSettings[s] /\ <<s, "settings">> \notin Range(c.errors) =>
                          \A step \in {"sync", "evaluate", "dispatch"} :
                              Occurrences(c.steps, <<s, step>>) = 1

\* a cycle has ended in which the first shop failed in every step or had no
\* API key, and the second shop was still reconciled and sent its email
C14_Witness ==
    \E y \in CycleRequests :
        LET c == cycleProc[y]
        IN  /\ WentThrough(c)
            /\ Len(c.visited) = 2
            /\ \E i \in DOMAIN c.errors : c.errors[i][1] = c.visited[1]
            /\ \A i \in DOMAIN c.errors : c.errors[i][1] # c.visited[2]
            /\ \E i \in DOMAIN syncLog : syncLog[i].shop = c.visited[2]
            /\ \E e \in giftEligibility :
                 e.shop = c.visited[2] /\ EmailsOf(e.id).dispatch = 1

\* the thresholds configured for a shop: the numbers of its trigger text
ConfiguredThresholds(shop) ==
    {giftSettings[shop].triggerOrderNumbers[i] :
        i \in DOMAIN giftSettings[shop].triggerOrderNumbers} \ {NULL}

\* the rows stored under a key
RowsOfKey(rows, shop, contract, orderNumber) ==
    {e \in rows : /\ e.shop = shop
                  /\ e.subscriptionContractId = contract
                  /\ e.orderNumber = orderNumber}

\* C18: for an order-paid event of a customer in an enabled shop with API key
\* whose completed-order count the upstream reports, the webhook goes on to
\* the existence check if the count equals a configured threshold and ends
\* without creating a row if it equals none; it goes on to create exactly
\* when it finds no row for the key, and with no row for the key it creates
\* exactly one, pending and not emailed
C18_WebhookCreatesOnExactMatch ==
    [][\A h \in HookRequests :
         /\ (hookProc[h].pc = "idle" /\ hookProc'[h].pc # "idle") =>
              \A shop \in Shops, customer \in Customers \ {0},
                 n \in PastOrders \ {NULL} :
                (/\ HookArrives(h, shop, customer, n)
                 /\ giftSettings[shop].enabled
                 /\ appSettings[shop]) =>
                    /\ giftEligibility' = giftEligibility
                    /\ IF n \in ConfiguredThresholds(shop)
                       THEN /\ hookProc'[h].pc = "find"
                            /\ hookProc'[h].orders = n
                            /\ hookProc'[h].customer = customer
                       ELSE hookProc'[h].pc = "done"
         /\ (hookProc[h].pc = "find" /\ hookProc'[h].pc # "find") =>
              /\ giftEligibility' = giftEligibility
              /\ hookProc'[h].pc = "create" <=>
                   RowsOfKey(giftEligibility, "shop1", hookProc[h].contract,
                             hookProc[h].orders) = {}
         /\ (hookProc[h].pc = "create" /\ hookProc'[h].pc # "create") =>
              LET old == RowsOfKey(giftEligibility, "shop1",
                                   hookProc[h].contract, hookProc[h].orders)
                  new == giftEligibility' \ giftEligibility
              IN  old = {} =>
                       /\ Cardinality(new) = 1
                       /\ giftEligibility \subseteq giftEligibility'
                       /\ \A e \in new :
                            /\ e.status = "pending"
                            /\ e.emailSentAt = NULL
                            /\ e.orderNumber = hookProc[h].orders
                            /\ e.subscriptionContractId = hookProc[h].contract
                            /\ e.orderNumber \in ConfiguredThresholds(e.shop)
      ]_vars

\* the webhook has created the pending row of a customer whose count equals
\* the highest threshold, next to a row of the same contract for the lowest
C18_Witness ==
    \E h \in HookRequests, e, f \in giftEligibility :
        /\ hookProc[h].pc = "done"
        /\ hookProc[h].elig = e.id
        /\ e.status = "pending"
        /\ e.orderNumber = MaxOrders
        /\ f.subscriptionContractId = e.subscriptionContractId
        /\ f.orderNumber = MinOrders

\* the rows a dispatch run selected and has not yet gone through
Captured(d) == {e \in giftEligibility : e.id \in Range(dispProc[d].captured)}

\* the dispatch emails delivered for a row after this step
DispatchEmailsAfter(id) ==
    IF id \in DOMAIN emailsSent' THEN emailsSent'[id].dispatch ELSE 0

\* C20: a dispatch run updates every row it selected to email_sent with
\* emailSentAt set in one step, in which no email is sent and before which it
\* has sent none; from then on, while it sends, none of its rows is pending,
\* and the row of every email a dispatch run delivers is not pending
C20_ClaimBeforeSend ==
    [][/\ \A d \in DispatchRequests :
            /\ (dispProc[d].pc = "claim" /\ dispProc'[d].pc # "claim") =>
                 /\ dispProc[d].sent = 0 /\ dispProc[d].failed = 0
                 /\ emailsSent' = emailsSent
                 /\ dispProc'[d].pc = "send"
                 /\ \A e \in giftEligibility' :
                      e.id \in Range(dispProc[d].captured) =>
                          e.status = "email_sent" /\ e.emailSentAt = now
            /\ dispProc[d].pc \in {"send", "fail"} =>
                 \A e \in Captured(d) :
                     e.status # "pending" /\ e.emailSentAt # NULL
       /\ \A e \in giftEligibility :
            DispatchEmailsAfter(e.id) > EmailsOf(e.id).dispatch =>
                e.status # "pending" /\ e.emailSentAt # NULL
      ]_vars

\* a run has updated the MaxPending rows it selected and has sent no email yet
C20_Witness ==
    \E d \in DispatchRequests :
        /\ dispProc[d].pc = "send"
        /\ Len(dispProc[d].captured) = MaxPending
        /\ dispProc[d].sent = 0 /\ dispProc[d].failed = 0
        /\ \A e \in Captured(d) :
             /\ e.status = "email_sent"
             /\ e.emailSentAt # NULL
             /\ EmailsOf(e.id).dispatch = 0

\* the email delay in force for a shop, a number of days from 0 on
ConfiguredDelay(shop) == giftSettings[shop].emailDelayDays

\* a dispatch run selects in this step
SelectsNow(d) == dispProc[d].pc = "idle" /\ dispProc'[d].pc = "claim"

\* C21: every row a dispatch run selects is, at that moment, pending, never
\* emailed, created at least the configured delay ago and not expired; and
\* every email a dispatch run delivers is for a row the run selected
C21_DispatchOnlyDueRows ==
    [][/\ \A d \in DispatchRequests : SelectsNow(d) =>
            \A e \in giftEligibility :
                e.id \in Range(dispProc'[d].captured) =>
                    /\ e.status = "pending"
                    /\ e.emailSentAt = NULL
                    /\ e.createdAt <= now - ConfiguredDelay(e.shop)
                    /\ e.expiresAt > now
       /\ \A e \in giftEligibility :
            DispatchEmailsAfter(e.id) > EmailsOf(e.id).dispatch =>
                \E d \in DispatchRequests :
                    /\ dispProc[d].pc = "send"
                    /\ Head(dispProc[d].captured) = e.id
      ]_vars

\* under a delay of MaxDelay days a run has emailed a row that was not yet due
\* at the start, while another run found nothing to select on an earlier day
C21_Witness ==
    /\ \A s \in Shops : giftSettings[s].emailDelayDays = MaxDelay
    /\ \E d \in DispatchRequests :
         /\ dispProc[d].pc = "done"
         /\ dispProc[d].sent > 0
    /\ \E d \in DispatchRequests :
         /\ dispProc[d].pc = "done"
         /\ dispProc[d].sent = 0 /\ dispProc[d].failed = 0
    /\ \E e \in giftEligibility :
         /\ EmailsOf(e.id).dispatch = 1
         /\ e.emailSentAt >= MaxDelay

\* the row of an id after this step
RowAfter(id) == CHOOSE e \in giftEligibility' : e.id = id

\* C22: the row of a failed send is marked email_failed by the run; no step
\* of a dispatch run sets a row in email_failed to pending, selects it or
\* delivers an email for it
C22_FailedStaysFailed ==
    [][/\ \A d \in DispatchRequests :
            (dispProc[d].pc = "fail" /\ dispProc'[d].pc # "fail") =>
                RowAfter(Head(dispProc[d].captured)).status = "email_failed"
       /\ \A e \in giftEligibility : e.status = "email_failed" =>
            /\ RowAfter(e.id).status # "pending"
            /\ \A d \in DispatchRequests :
                 SelectsNow(d) => e.id \notin Range(dispProc'[d].captured)
            /\ DispatchEmailsAfter(e.id) = EmailsOf(e.id).dispatch
      ]_vars

\* the operator has reset the row from email_failed and it is pending
ResetFromFailed(e) ==
    \E o \in ResetRequests :
        /\ resetProc[o].pc = "done"
        /\ resetProc[o].id = e.id
        /\ resetProc[o].from = "email_failed"
        /\ e.status = "pending"

\* C23: a dispatch run that selects while a row reset from email_failed is
\* pending, due under the configured delay and not expired, selects that row
C23_ResetRowIsSelected ==
    [][\A d \in DispatchRequests :
         (dispProc[d].pc = "idle" /\ dispProc'[d].pc # "idle") =>
             \A e \in giftEligibility :
                 (/\ ResetFromFailed(e)
                  /\ e.createdAt <= now - ConfiguredDelay(e.shop)
                  /\ e.expiresAt > now)
                 => e.id \in Range(dispProc'[d].captured)
      ]_vars

\* a cycle started by the timer is between its start and its end
TimerCycleInProgress(procs) ==
    \E q \in CycleRequests :
        procs[q].entry = "cron" /\ procs[q].pc \notin {"idle", "done"}

\* the cycle was skipped at the flag test
Skipped(c) == c.errors = <<<<"", "skipped">>>>

\* C24: after every step the flag is set only while a cycle started by the
\* timer is in progress, so it is clear once such a cycle has ended, normally
\* or after an error; a cycle the timer starts while none is in progress is
\* not skipped and takes up the list of the enabled shops
C24_FlagClearedAtEnd ==
    [][/\ cronRunning' => TimerCycleInProgress(cycleProc')
       /\ \A y \in CycleRequests :
            (/\ cycleProc[y].pc = "idle"
             /\ cycleProc'[y].entry = "cron"
             /\ ~TimerCycleInProgress(cycleProc))
            => /\ ~Skipped(cycleProc'[y])
               /\ \/ cycleProc'[y].errors = <<<<"", "fatal">>>>
                  \/ Range(cycleProc'[y].list) = EnabledShops
      ]_vars

\* a cycle of the timer has ended after an error in a step, the flag is clear,
\* and the timer's next cycle has gone through the enabled shop
C24_Witness ==
    /\ ~cronRunning
    /\ cycleProc[FirstCycle].entry = "cron"
    /\ cycleProc[FirstCycle].pc = "done"
    /\ cycleProc[FirstCycle].errors # <<>>
    /\ ~Skipped(cycleProc[FirstCycle])
    /\ \E y \in CycleRequests \ {FirstCycle} :
         /\ cycleProc[y].entry = "cron"
         /\ cycleProc[y].pc = "done"
         /\ cycleProc[y].visited # <<>>
         /\ Len(cycleProc[y].steps) = 3

\* the steps a cycle has started for a shop, in the order it started them
StepsOf(c, shop) ==
    LET OfShop(x) == x[1] = shop
        started == SelectSeq(c.steps, OfShop)
    IN  [i \in DOMAIN started |-> started[i][2]]

StepOrder == <<"sync", "evaluate", "dispatch">>

\* the cycle has left the shop behind
ShopLeft(c, shop) ==
    /\ shop \in Range(c.visited)
    /\ c.pc = "done" \/ c.shop # shop

\* C25: the steps a cycle has started for a shop are an initial part of
\* reconcile, evaluate, dispatch; when the cycle leaves a shop whose first step
\* started, all three have started, whatever failed; and a step that ended
\* with an error has that error recorded when the next step starts
C25_StepsInOrderDespiteErrors ==
    [][\A y \in CycleRequests :
         LET c == cycleProc'[y]
         IN  /\ \A shop \in CycleShops :
                  /\ StepsOf(c, shop) = SubSeq(StepOrder, 1, Len(StepsOf(c, shop)))
                  /\ (ShopLeft(c, shop) /\ StepsOf(c, shop) # <<>>) =>
                         StepsOf(c, shop) = StepOrder
                  /\ \A step \in Range(StepOrder) :
                         <<shop, step>> \in Range(c.errors) =>
                             step \in Range(StepsOf(c, shop))
             /\ (cycleProc[y].pc = "sync" /\ c.pc # "sync") =>
                    /\ c.pc = "evaluate"
                    /\ syncProc[CycleSync].error # "none" =>
                           <<c.shop, "sync">> \in Range(c.errors)
             /\ (cycleProc[y].pc = "evaluate" /\ c.pc # "evaluate") =>
                    /\ c.pc = "dispatch"
                    /\ evalProc[CycleEval].error # "none" =>
                           <<c.shop, "evaluate">> \in Range(c.errors)
      ]_vars

\* a cycle has ended in which a shop's reconcile and evaluate steps both
\* failed and its dispatch step started all the same
C25_Witness ==
    \E y \in CycleRequests : \E shop \in CycleShops :
        /\ cycleProc[y].pc = "done"
        /\ <<shop, "sync">> \in Range(cycleProc[y].errors)
        /\ <<shop, "evaluate">> \in Range(cycleProc[y].errors)
        /\ StepsOf(cycleProc[y], shop) = StepOrder

\* the contract the lookup resolved is not active
NotActive(info) == info.status \notin {"", "ACTIVE", "active"}

\* the contract the lookup resolved has no scheduled next order
Unscheduled(info) == info.nextBillingDate = "" /\ info.billingAttemptId = NULL

\* the call has resolved its contract
Resolved(r) == r.pc \in {"put", "done"} /\ r.info.appstleInternalId # NULL

\* C26: a call whose resolved contract is not active, or has neither a next
\* billing date nor a billing attempt, issues no PUT request and ends with an
\* error
C26_RejectedWithoutWrite ==
    \A a \in ApplyRequests :
        LET r == applyProc[a]
        IN  (Resolved(r) /\ (NotActive(r.info) \/ Unscheduled(r.info))) =>
                /\ r.writes = <<>>
                /\ r.result # "success"

\* the pages the lookup received cover the whole listing
WholeListingSeen(r) ==
    r.page * PageSize >= Len(upstream[r.shop].contracts)

\* no listed contract has the identifier as its internal or its external id
NoListedMatch(r) ==
    \A c \in Range(upstream[r.shop].contracts) :
        c.id # r.contractId /\ c.subscriptionContractId # r.contractId

\* C27: a call ends with the not-found error exactly when its lookup received
\* the whole listing and no listed contract has the identifier as internal or
\* external id; a call that ends so has issued no PUT request
C27_NotFoundIffAbsent ==
    \A a \in ApplyRequests :
        LET r == applyProc[a]
        IN  r.pc = "done" =>
                /\ (r.result = "not_found") =
                       (WholeListingSeen(r) /\ NoListedMatch(r))
                /\ r.result = "not_found" => r.writes = <<>>

\* the answers that count as success: a non-empty array, an empty array, an
\* object with fields and no error
SuccessAnswers == {"array", "empty_array", "object"}

\* the most PUT requests one call can issue: two contract ids, two handles
MostCandidates == 4

\* C28: the PUT requests a call has issued are, in order, an initial part of
\* its list of at most four candidates; every request before the last was
\* answered with a failure; the call reports success exactly when its last
\* request was answered with a success, and has then ended; it reports failure
\* only after every candidate was requested and none succeeded
C28_FirstSuccessStops ==
    \A a \in ApplyRequests :
        LET r == applyProc[a]
            all == Candidates(r.info, r.handle)
            n == Len(r.writes)
        IN  Resolved(r) =>
                /\ Len(all) <= MostCandidates
                /\ n <= Len(all)
                /\ \A i \in 1..n : r.writes[i].candidate = all[i]
                /\ \A i \in 1..(n - 1) : r.writes[i].response \notin SuccessAnswers
                /\ (r.result = "success") =
                       (n > 0 /\ r.writes[n].response \in SuccessAnswers)
                /\ r.result = "success" => r.pc = "done"
                /\ r.result \in {"failed", "no_scheduled_order"} =>
                       /\ n = Len(all)
                       /\ \A i \in 1..n : r.writes[i].response \notin SuccessAnswers

\* a call has succeeded at its fourth candidate with an empty array, after
\* three failures of different kinds
C28_Witness ==
    \E a \in ApplyRequests :
        LET r == applyProc[a]
        IN  /\ r.pc = "done"
            /\ r.result = "success"
            /\ Len(r.writes) = MostCandidates
            /\ r.writes[MostCandidates].response = "empty_array"
            /\ r.writes[1].response = "thrown"
            /\ r.writes[2].response = "error_object"

\* the snapshot rows of the upstream contracts that delivered the minimum
FilteredUpstream(shop) ==
    {SnapshotRow(shop, upstream[shop].contracts[i]) :
        i \in {j \in DOMAIN upstream[shop].contracts :
                 /\ upstream[shop].contracts[j].totalSuccessfulOrders # NULL
                 /\ upstream[shop].contracts[j].totalSuccessfulOrders >= MinOrders}}

\* reconciliation r ends in this step
SyncEnds(r) == syncProc[r].pc # "done" /\ syncProc'[r].pc = "done"

\* C15: a reconciliation that ends without error leaves as the shop's snapshot
\* exactly the upstream contracts with delivered orders >= the minimum, so a
\* second one run after it against the same upstream leaves the same rows
C15_ReconcileIdempotent ==
    [][\A r \in SyncRequests :
         SyncEnds(r) /\ syncProc'[r].error = "none" =>
             {s \in syncedSubscriber' : s.shop = syncProc[r].shop}
                 = FilteredUpstream(syncProc[r].shop)]_vars

\* two reconciliations have run in sequence without error against an upstream
\* that lists a contract at the minimum and one below it
C15_Witness ==
    /\ \A r \in SyncRequests : syncProc[r].pc = "done" /\ syncProc[r].error = "none"
    /\ \E shop \in Shops :
         /\ {s \in syncedSubscriber : s.shop = shop} = FilteredUpstream(shop)
         /\ FilteredUpstream(shop) # {}
         /\ Cardinality(FilteredUpstream(shop)) < Len(upstream[shop].contracts)

\* the reconciliations that were attempted and have ended
Attempted == {r \in SyncRequests :
                 syncProc[r].pc = "done" /\ syncProc[r].error # "no_key"}

\* C16: every reconciliation attempt that has ended, successful or failed,
\* has appended one SyncLog row
C16_OneSyncLogPerAttempt == Len(syncLog) = Cardinality(Attempted)

----------------------------------------------------------------------------
\* Properties of the redemption endpoints

\* the row with this id, as it is after the step
EligibilityAfter(id) == CHOOSE e \in giftEligibility' : e.id = id

\* request r is answered in this step, having found row id
RejectedNow(r, id) ==
    /\ selProc[r].pc # "done"
    /\ selProc'[r].pc = "done"
    /\ selProc'[r].elig = id

\* no GiftSelection row, no upstream call and no change to the eligibilities
NoRedemptionEffect(r) ==
    /\ giftSelection' = giftSelection
    /\ giftEligibility' = giftEligibility
    /\ addCalls' = addCalls
    /\ addCalls[r] = 0

\* C3: for any eligibility, at most one redemption applies gift products to
\* the upstream contract: two submissions of the same token whose steps
\* interleave never both pass the status check and call the upstream.
C3_AtMostOneRedemption ==
    \A r1, r2 \in SelectRequests :
        (r1 # r2 /\ addCalls[r1] > 0 /\ addCalls[r2] > 0)
            => selProc[r1].elig # selProc[r2].elig

\* C5: a row whose expiresAt is in the past is never reported valid by the
\* verification endpoint and never passes the checks of the selection
\* endpoint, whatever its status; the rejected submission writes no
\* GiftSelection row, makes no upstream call and changes no eligibility.
C5_ExpiredRejected ==
    [][/\ \A v \in VerifyRequests :
            (verifyProc[v].pc = "idle" /\ verifyProc'[v].resp = "valid")
                => \E e \in giftEligibility :
                       e.id = verifyProc'[v].elig /\ ~(e.expiresAt < now)
       /\ \A r \in SelectRequests, e \in giftEligibility :
            (selProc[r].pc = "idle" /\ selProc'[r].pc # "idle"
                /\ selProc'[r].elig = e.id /\ e.expiresAt < now)
                => (RejectedNow(r, e.id) /\ NoRedemptionEffect(r))
      ]_vars

\* an expired row that had been applied was verified and submitted again:
\* both were refused as expired
C5_Witness ==
    \E r \in SelectRequests, v \in VerifyRequests, e \in giftEligibility :
        /\ e.status = "applied"
        /\ e.expiresAt < now
        /\ selProc[r].pc = "done" /\ selProc[r].resp = "expired"
        /\ selProc[r].elig = e.id
        /\ verifyProc[v].resp = "expired" /\ verifyProc[v].elig = e.id

\* the answers of the validation checks
Rejections == {"invalid_request", "invalid_token", "expired",
               "already_selected", "over_limit"}

\* the maximum configured for a shop: the stored value, 3 when none is stored
ConfiguredMax(shop) ==
    IF giftSettings[shop].maxGiftProducts \in {0, NULL}
    THEN DefaultMaxGifts ELSE giftSettings[shop].maxGiftProducts

\* C17: the selection endpoint checks in the order token exists, not expired,
\* not already selected or applied, count within the maximum. The first check
\* that fails gives the answer: an expired row is answered "expired" whatever
\* its status and the count, a row already selected is answered so whatever
\* the count, the count is checked only for a row that passed the others; a
\* rejected submission writes nothing and calls nothing.
C17_ValidationOrder ==
    [][\A r \in SelectRequests :
         /\ (selProc[r].pc = "idle" /\ selProc'[r].pc # "idle") =>
              /\ selProc'[r].resp = "invalid_token" => selProc'[r].elig = 0
              /\ \A e \in giftEligibility :
                   selProc'[r].elig = e.id =>
                     /\ now > e.expiresAt => selProc'[r].resp = "expired"
                     /\ (~(now > e.expiresAt)
                            /\ e.status \in {"selected", "applied"})
                          => selProc'[r].resp = "already_selected"
                     /\ (~(now > e.expiresAt)
                            /\ e.status \notin {"selected", "applied"})
                          => (selProc'[r].pc = "found" /\ selProc'[r].resp = "none")
         /\ (selProc[r].pc = "found" /\ selProc'[r].pc # "found") =>
              \A e \in giftEligibility :
                   selProc[r].elig = e.id =>
                     IF selProc[r].k > ConfiguredMax(e.shop)
                     THEN selProc'[r].pc = "done" /\ selProc'[r].resp = "over_limit"
                     ELSE selProc'[r].pc = "limited" /\ selProc'[r].resp = "none"
         /\ (selProc[r].pc # "done" /\ selProc'[r].pc = "done"
                /\ selProc'[r].resp \in Rejections) => NoRedemptionEffect(r)
      ]_vars

\* a row was redeemed by one submission and has expired since; a second
\* submission of its token was answered "expired", not "already selected"
C17_Witness ==
    \E r1, r2 \in SelectRequests, e \in giftEligibility :
        /\ r1 # r2
        /\ selProc[r1].pc = "done" /\ selProc[r1].elig = e.id
        /\ selProc[r1].resp \notin Rejections
        /\ e.status \in {"selected", "applied"}
        /\ now > e.expiresAt
        /\ selProc[r2].pc = "done" /\ selProc[r2].elig = e.id
        /\ selProc[r2].resp = "expired"


\* C6: a submission with more products than the shop's stored
\* maxGiftProducts is rejected at the limit check, before any GiftSelection
\* row is written and before any upstream call, for every stored value.
C6_OverLimitRejected ==
    [][\A r \in SelectRequests, e \in giftEligibility :
          (selProc[r].pc = "found" /\ selProc'[r].pc # "found"
              /\ selProc[r].elig = e.id
              /\ selProc[r].k > giftSettings[e.shop].maxGiftProducts)
              => (/\ RejectedNow(r, e.id)
                  /\ selProc'[r].resp = "over_limit"
                  /\ NoRedemptionEffect(r))
      ]_vars

\* a submission was refused for exceeding a limit set by the operator
C6_Witness ==
    \E r \in SelectRequests, s \in Shops :
        /\ selProc[r].pc = "done"
        /\ selProc[r].resp = "over_limit"
        /\ giftSettings[s].maxGiftProducts < MaxProducts
        /\ giftSelection = {}

\* the number of products of request r that the upstream accepted
Succeeded(r) ==
    Cardinality({i \in DOMAIN selProc[r].results : selProc[r].results[i].success})

\* request r makes its final status update in this step
FinishesNow(r) == selProc[r].pc = "marked" /\ selProc'[r].pc = "done"

\* C7: when the upstream accepts exactly j of the k products (0 < j < k),
\* after the redemption exactly j GiftSelection rows of the eligibility have
\* addedToSubscription = true, the response is success with partial = true
\* and the status is selected.
C7_PartialMarksEachSuccess ==
    [][\A r \in SelectRequests :
          (FinishesNow(r) /\ 0 < Succeeded(r) /\ Succeeded(r) < selProc[r].k)
              => (/\ Cardinality({s \in giftSelection' :
                         /\ s.giftEligibilityId = selProc[r].elig
                         /\ s.addedToSubscription}) = Succeeded(r)
                  /\ selProc'[r].resp = "partial"
                  /\ EligibilityAfter(selProc[r].elig).status = "selected")
      ]_vars

\* C8: the final update of a redemption sets status applied if and only if
\* every chosen product was applied upstream, otherwise selected; selectedAt
\* is set in both cases, appliedAt only when all products succeeded.
C8_FinalStatus ==
    [][\A r \in SelectRequests :
          FinishesNow(r) =>
              LET e == EligibilityAfter(selProc[r].elig)
                  all == Succeeded(r) = selProc[r].k
              IN /\ e.status = (IF all THEN "applied" ELSE "selected")
                 /\ e.selectedAt # NULL
                 /\ (e.appliedAt # NULL) <=> all
      ]_vars

\* a redemption ended with some products refused: the row is selected,
\* stamped selectedAt and not appliedAt
C8_Witness ==
    \E r \in SelectRequests, e \in giftEligibility :
        /\ selProc[r].pc = "done" /\ selProc[r].resp = "partial"
        /\ selProc[r].elig = e.id
        /\ e.status = "selected" /\ e.selectedAt # NULL /\ e.appliedAt = NULL

\* C9: when every chosen product fails upstream the response is a failure
\* and the customer can retry: the next submission of the same unexpired
\* token is not rejected as already selected.
C9_RetryAfterTotalFailure ==
    \A r1, r2 \in SelectRequests :
        (r1 \in Earlier(r2) /\ selProc[r1].pc = "done"
            /\ selProc[r1].resp = "all_failed"
            /\ selProc[r2].elig = selProc[r1].elig)
            => ~(selProc[r2].pc = "done" /\ selProc[r2].resp = "already_selected")

\* C10: the operator's reset deletes every GiftSelection row of the
\* eligibility and leaves it pending with selectedAt and appliedAt null; a
\* submission of the same token that arrives after the reset of an applied,
\* unexpired row, while the row is as the reset left it, passes the token,
\* expiry and status checks, and passes the limit check when it carries no
\* more products than maxGiftProducts.
C10_ResetRedo ==
    [][/\ \A o \in ResetRequests :
            (resetProc[o].pc = "idle" /\ resetProc'[o].pc = "deleted")
                => ~\E s \in giftSelection' :
                        s.giftEligibilityId = resetProc'[o].id
       /\ \A o \in ResetRequests :
            (resetProc[o].pc = "deleted" /\ resetProc'[o].pc = "done")
                => LET e == EligibilityAfter(resetProc[o].id)
                   IN /\ e.status = "pending"
                      /\ e.selectedAt = NULL
                      /\ e.appliedAt = NULL
       /\ \A r \in SelectRequests, e \in giftEligibility :
            (selProc[r].pc = "idle" /\ selProc'[r].pc # "idle"
                /\ selProc'[r].elig = e.id
                /\ ResetFromAppliedDone(e.id)
                /\ e.status = "pending" /\ ~(now > e.expiresAt))
                => (selProc'[r].pc = "found" /\ selProc'[r].afterReset)
       /\ \A r \in SelectRequests, e \in giftEligibility :
            (selProc[r].pc = "found" /\ selProc'[r].pc # "found"
                /\ selProc[r].afterReset /\ selProc[r].elig = e.id
                /\ selProc[r].k <= giftSettings[e.shop].maxGiftProducts)
                => selProc'[r].pc = "limited"
      ]_vars

\* after the reset of an applied row, a new submission has written its
\* GiftSelection rows and called the upstream again
C10_Witness ==
    \E r \in SelectRequests, e \in giftEligibility :
        /\ selProc[r].afterReset
        /\ selProc[r].pc = "applied"
        /\ selProc[r].elig = e.id
        /\ addCalls[r] > 0
        /\ e.status = "pending" /\ e.selectedAt = NULL /\ e.appliedAt = NULL
        /\ \A s \in giftSelection :
               s.giftEligibilityId = e.id => ~s.addedToSubscription

\* the GiftSelection row of product i of the submission p is stored
SelectionStored(rows, p, i) ==
    /\ i <= Len(p.rows)
    /\ \E sel \in rows :
         /\ sel.id = p.rows[i]
         /\ sel.giftEligibilityId = p.elig
         /\ sel.variantId = i

\* the operator's reset has deleted the selections of the submission's row
ResetHasDeleted(r) ==
    \E o \in ResetRequests :
        resetProc[o].pc \in {"deleted", "done"} /\ resetProc[o].id = selProc[r].elig

\* C29 as stated: the step of a submission that issues its upstream calls
\* starts from a state in which one GiftSelection row per chosen product is
\* stored
C29_SelectionsStoredAtApply ==
    [][\A r \in SelectRequests :
         addCalls'[r] > addCalls[r] =>
             \A i \in 1..selProc[r].k : SelectionStored(giftSelection, selProc[r], i)
      ]_vars

\* C29, amended: the step that creates the rows stores one per chosen
\* product; the step that issues the upstream calls comes after it; and the
\* rows are still stored then unless the operator's reset has deleted them
C29_SelectionsBeforeApply ==
    [][\A r \in SelectRequests :
         /\ (selProc[r].pc = "validated" /\ selProc'[r].pc # "validated") =>
                /\ addCalls[r] = 0 /\ addCalls'[r] = 0
                /\ Len(selProc'[r].rows) = selProc[r].k
                /\ \A i \in 1..selProc[r].k :
                       SelectionStored(giftSelection', selProc'[r], i)
         /\ addCalls'[r] > addCalls[r] =>
                /\ selProc[r].pc = "created"
                /\ Len(selProc[r].rows) = selProc[r].k
                /\ \/ \A i \in 1..selProc[r].k :
                          SelectionStored(giftSelection, selProc[r], i)
                   \/ ResetHasDeleted(r)
      ]_vars

\* a submission of MaxProducts products has issued its upstream calls and no
\* row of it is marked yet
C29_Witness ==
    \E r \in SelectRequests :
        /\ selProc[r].pc = "applied"
        /\ selProc[r].k = MaxProducts
        /\ addCalls[r] = MaxProducts
        /\ \A i \in 1..MaxProducts : SelectionStored(giftSelection, selProc[r], i)
        /\ \A sel \in giftSelection : ~sel.addedToSubscription

\* two rows of the same (shop, contract, threshold) milestone
SameMilestone(e, f) ==
    /\ e.shop = f.shop
    /\ e.subscriptionContractId = f.subscriptionContractId
    /\ e.orderNumber = f.orderNumber

\* C30: no step deletes a GiftEligibility row: every row is there after the
\* step, with its id, its milestone and its token; and a row the step creates
\* is of a milestone no row had, whatever became of the snapshot row
C30_RowsAreNeverDeleted ==
    [][/\ \A e \in giftEligibility :
            \E f \in giftEligibility' :
                /\ f.id = e.id
                /\ f.giftToken = e.giftToken
                /\ SameMilestone(e, f)
       /\ \A f \in giftEligibility' :
            (\A e \in giftEligibility : e.id # f.id) =>
                \A e \in giftEligibility : ~SameMilestone(e, f)
      ]_vars

\* a row's shop was uninstalled after the cycle that created the row, its
\* snapshot rows removed; the next cycle has been through the shop's three
\* steps, the row has since been redeemed and reset, and it is still the
\* only row of its milestone
C30_Witness ==
    \E e \in giftEligibility :
        /\ CyclesOver
        /\ \A y \in CycleRequests : StepsOf(cycleProc[y], e.shop) = StepOrder
        /\ \A s \in syncedSubscriber : s.shop # e.shop
        /\ \E o \in ResetRequests :
             resetProc[o].pc = "done" /\ resetProc[o].id = e.id
        /\ selProc[FirstSelect].pc = "done"
        /\ selProc[FirstSelect].elig = e.id
        /\ \A f \in giftEligibility : SameMilestone(e, f) => f = e

\* the rows a reconciliation of the shop is to store
ExpectedSnapshot(shop) ==
    LET work == SyncSubscribers(upstream[shop]).filteredSubscribers
    IN  {SnapshotRow(shop, work[i]) : i \in DOMAIN work}

\* the reconciliation has ended after it replaced rows: it completed, or an
\* insert of it was refused by the unique index
Replaced(p) == p.pc = "done" /\ p.error \in {"none", "unique_constraint"}

\* C31: whatever the interleaving of two reconciliations of a shop, no
\* snapshot row is stored twice and no two rows have one (shop, contract)
\* key; when both have ended the snapshot holds exactly the filtered contracts
C31_OverlapKeepsSnapshot ==
    /\ extraCopies = <<>>
    /\ \A s, t \in syncedSubscriber :
           (s.shop = t.shop /\ s.contractId = t.contractId) => s = t
    /\ (\A r \in SyncRequests : Replaced(syncProc[r])) =>
           \A r \in SyncRequests :
               DeleteShopRows(syncedSubscriber, syncProc[r].shop) = {}
               /\ syncedSubscriber = ExpectedSnapshot(syncProc[r].shop)

\* both reconciliations have ended, one of them refused by the unique index
\* after the other had deleted its rows, and the snapshot holds MaxUpstream
\* contracts
C31_Witness ==
    /\ \A r \in SyncRequests : Replaced(syncProc[r])
    /\ \E r \in SyncRequests : syncProc[r].error = "unique_constraint"
    /\ \E r \in SyncRequests : syncProc[r].error = "none"
    /\ Cardinality(syncedSubscriber) = MaxUpstream

\* C32: no two eligibilities are issued to one customer of a shop for one
\* threshold, whichever of the webhook and the evaluator issued them
C32_OnePerCustomerMilestone ==
    \A e, f \in giftEligibility :
        (/\ e.shop = f.shop
         /\ e.customerId = f.customerId
         /\ e.orderNumber = f.orderNumber) => e = f

\* the step is the operator's reset of row id
ResetsNow(id) ==
    \E o \in ResetRequests :
        /\ resetProc[o].pc = "deleted"
        /\ resetProc'[o].pc = "done"
        /\ resetProc[o].id = id

\* C33: a row whose status is selected or applied keeps that status in every
\* step that is not the operator's reset of it
C33_TakenStatusKept ==
    [][\A e \in giftEligibility :
          (e.status \in {"selected", "applied"} /\ ~ResetsNow(e.id)) =>
              RowAfter(e.id).status = e.status
      ]_vars

\* the GiftSelection rows of an eligibility
SelectionsOf(id) == {sel \in giftSelection : sel.giftEligibilityId = id}

\* C34: an eligibility never has more GiftSelection rows than its shop's
\* maxGiftProducts
C34_SelectionsWithinLimit ==
    \A e \in giftEligibility :
        Cardinality(SelectionsOf(e.id)) <= giftSettings[e.shop].maxGiftProducts

\* C35: selectedAt is set exactly when the status is selected or applied, and
\* appliedAt exactly when it is applied
C35_TimestampsAgreeWithStatus ==
    \A e \in giftEligibility :
        /\ (e.selectedAt # NULL) <=> (e.status \in {"selected", "applied"})
        /\ (e.appliedAt # NULL) <=> (e.status = "applied")

\* the rows a dispatch run has claimed: emailSentAt is set by no other step
\* of a run
Claimed == {e \in giftEligibility : e.emailSentAt # NULL}

\* C36: when a dispatch run has finished, each row it claimed either was
\* emailed and is in email_sent, or is in email_failed
C36_NoUnsentRowLeftSent ==
    \A d \in DispatchRequests :
        dispProc[d].pc = "done" =>
            \A e \in Claimed :
                \/ e.status = "email_sent" /\ EmailsOf(e.id).dispatch > 0
                \/ e.status = "email_failed"

\* the upstream fails the first page of the shop's listing
FetchFails(shop) == PageThrows(upstream[shop], 0)

\* the snapshot rows of a shop
SnapshotOf(rows, shop) == {s \in rows : s.shop = shop}

\* C37: while the upstream listing of a shop fails, no step changes the
\* shop's snapshot rows; and a step that changes them is taken by a
\* reconciliation that has fetched the whole listing
C37_FailedFetchKeepsSnapshot ==
    [][\A shop \in Shops :
          /\ FetchFails(shop) =>
                SnapshotOf(syncedSubscriber', shop) = SnapshotOf(syncedSubscriber, shop)
          /\ SnapshotOf(syncedSubscriber', shop) # SnapshotOf(syncedSubscriber, shop) =>
                \E r \in SyncRequests :
                    /\ syncProc[r].shop = shop
                    /\ syncProc[r].pc \in {"delete", "insert"}
                    /\ syncProc'[r] # syncProc[r]
                    /\ syncProc[r].totalFetched = Len(upstream[shop].contracts)
      ]_vars

\* a reconciliation has ended on a failed fetch and the rows stored before it
\* are still there
C37_Witness ==
    \E r \in SyncRequests :
        /\ syncProc[r].pc = "done"
        /\ syncProc[r].error = "fetch"
        /\ FetchFails(syncProc[r].shop)
        /\ upstream[syncProc[r].shop].contracts # <<>>
        /\ SnapshotOf(syncedSubscriber, syncProc[r].shop) = {StaleRow(syncProc[r].shop)}

\* the emails delivered for the rows of a shop
EmailsOfShop(rows, sent, shop) ==
    {<<e.id, sent[e.id]>> : e \in {f \in rows : f.shop = shop /\ f.id \in DOMAIN sent}}

\* C38: in a state where a shop's gift settings are disabled, no step creates
\* an eligibility of the shop or delivers an email for one
C38_DisabledShopIsQuiet ==
    [][\A shop \in Shops :
          ~giftSettings[shop].enabled =>
              /\ {e.id : e \in {f \in giftEligibility' : f.shop = shop}}
                     = {e.id : e \in {f \in giftEligibility : f.shop = shop}}
              /\ EmailsOfShop(giftEligibility', emailsSent', shop)
                     = EmailsOfShop(giftEligibility, emailsSent, shop)
      ]_vars


\* C39: for the same token and the same stored rows at the same instant, the
\* verification endpoint answers valid exactly when the token, expiry and
\* status checks of the selection endpoint pass for a submission that names
\* at least one product.
C39_VerifyAgreesWithSelect ==
    \A token \in RequestTokens \ {""}, k \in 1..MaxProducts :
        (VerifyCheck(FindByToken(token), FALSE, FALSE, now) = "valid")
            <=> (SelectCheck(token, k, FindByToken(token), now) = "ok")

\* a token was verified as valid and a submission of it passed its checks,
\* the row being as both read it; another token is refused by both
C39_Witness ==
    \E r \in SelectRequests, v \in VerifyRequests, e \in giftEligibility :
        /\ verifyProc[v].resp = "valid" /\ verifyProc[v].elig = e.id
        /\ selProc[r].pc = "found" /\ selProc[r].elig = e.id
        /\ selProc[r].token = e.giftToken
        /\ ~AlreadySelected(e) /\ ~IsExpired(e, now)
        /\ \E t \in RequestTokens \ {""} :
               /\ VerifyCheck(FindByToken(t), FALSE, FALSE, now) # "valid"
               /\ SelectCheck(t, 1, FindByToken(t), now) # "ok"


\* the fields of a row that no update names
SameButStatus(e, f) ==
    /\ f.giftToken = e.giftToken
    /\ f.expiresAt = e.expiresAt
    /\ SameMilestone(e, f)
    /\ f.customerId = e.customerId
    /\ f.customerEmail = e.customerEmail
    /\ f.createdAt = e.createdAt

\* C40: after its creation a row keeps its token, its expiry instant and its
\* (shop, contract, threshold) key: a step changes of a row nothing but the
\* status and the emailSentAt, selectedAt and appliedAt timestamps, and a
\* step of an evaluation, or one that creates a row, changes no row at all.
C40_OnlyStatusChanges ==
    [][/\ \A e \in giftEligibility, f \in giftEligibility' :
            f.id = e.id => SameButStatus(e, f)
       /\ ((\E p \in EvalRequests : evalProc'[p] # evalProc[p])
              \/ (\E f \in giftEligibility' :
                     \A e \in giftEligibility : e.id # f.id))
            => \A e \in giftEligibility : e \in giftEligibility'
      ]_vars

\* a row was emailed by a cycle and its shop evaluated again by the next
\* cycle, then it was redeemed and reset by the operator: it has its first
\* token and its status is pending again
C40_Witness ==
    \E e \in giftEligibility :
        /\ CyclesOver
        /\ \A y \in CycleRequests : StepsOf(cycleProc[y], e.shop) = StepOrder
        /\ e.giftToken = GiftToken(e.id)
        /\ e.emailSentAt # NULL
        /\ e.status = "pending"
        /\ selProc[FirstSelect].pc = "done"
        /\ selProc[FirstSelect].elig = e.id
        /\ selProc[FirstSelect].resp \notin Rejections
        /\ \E o \in ResetRequests :
             resetProc[o].pc = "done" /\ resetProc[o].id = e.id

============================================================================
